---- MODULE Spec2Model ----
(***************************************************************************)
(* The provider-selection and request-dispatch engine of bot-client:       *)
(* class AIFactory of src/src/ai-factory.ts.  One AIFactory instance, its  *)
(* asynchronous registry construction (initializeProviders), and the       *)
(* calls process / generate / testProviders made on it.  Every action is   *)
(* one run-to-completion segment of an async function: from one await to   *)
(* the next.  What a provider answers (process, testConnection,            *)
(* discoverModels) is outside the factory and is drawn nondeterministically*)
(* at the moment the awaited promise settles.                              *)
(***************************************************************************)
EXTENDS Integers, Sequences, FiniteSets, TLC

\* ------------------------------------------------------------------ bounds

\* Longest request.history the model explores.
MaxHistory == 2
\* Largest number of calls in flight on one factory the model explores.
MaxConcurrent == 2
\* Largest value of config.retries the model explores.
MaxRetries == 2
\* Longest config.providers list the model explores.
MaxProviders == 2
\* -------------------------------------------------------------- vocabulary

\* undefined / null / an absent optional field
Null == "null"

\* Provider instances the caller may put in config.providers, with the
\* providerId each reports and the models each answers isModelSupported for.
Instances == {"p1", "p2", "p3"}

\* The instances initializeProviders constructs when config.providers is
\* undefined, in the order of its array literal.
BuiltinProviders == <<"openai", "anthropic", "gemini", "ollama", "lmstudio">>

\* provider.providerId; a built-in provider reports the id it is named by here
providerId(p) ==
    CASE p = "p1" -> "a"
      [] p = "p2" -> "b"
      [] p = "p3" -> "a"
      [] p \in {"openai", "anthropic", "gemini", "ollama", "lmstudio"} -> p

Range(s) == {s[i] : i \in 1..Len(s)}

\* provider.supportedModels, a string[]: "p3" lists "m1" twice, and shares
\* "m2" with "p2"
supportedModelsArray(p) ==
    CASE p = "p1" -> <<"m1">>
      [] p = "p2" -> <<"m2">>
      [] p = "p3" -> <<"m1", "m2", "m1">>

\* for each instance the set of the models its supportedModels array holds
SupportedModelSets == [p \in Instances |-> Range(supportedModelsArray(p))]

\* the models of provider.supportedModels, as isModelSupported tests them
supportedModels(p) == SupportedModelSets[p]

isModelSupported(p, modelId) == modelId \in supportedModels(p)

\* "m3" is a model no instance supports
ModelIds == {"m1", "m2", "m3"}

RECURSIVE SeqsUpTo(_, _)
SeqsUpTo(S, n) ==
    IF n = 0 THEN {<<>>}
    ELSE LET shorter == SeqsUpTo(S, n - 1)
         IN  shorter \cup {Append(s, x) : s \in {t \in shorter : Len(t) = n - 1}, x \in S}

\* config.providers: lists of distinct instances
ProviderLists ==
    {s \in SeqsUpTo(Instances, MaxProviders) : Cardinality(Range(s)) = Len(s)}

\* config.providerOrder; an unset providerOrder and [] both have a falsy
\* ?.length and are the empty sequence here.
\* "zz" is an id no instance reports.
ProviderOrders == {<<>>, <<"zz", "a", "b">>}

\* with a providerOrder that lists no id any instance reports
AllProviderOrders == ProviderOrders \cup {<<"zz">>}

\* The methods of a Logger, all optional.
LoggerMethods == {"debug", "info", "warn", "error"}

\* config.logger, as the set of the methods it has: an empty object, a logger
\* with info only, with warn only, and a complete one
Loggers == {{}, {"info"}, {"warn"}, LoggerMethods}

\* AIFactoryConfig; providersSet is FALSE when config.providers is undefined,
\* loggerSet when config.logger is
Configs ==
    [ providersSet     : BOOLEAN,
      providers        : ProviderLists,
      loggerSet        : BOOLEAN,
      logger           : Loggers,
      defaultProvider  : {Null, "b"},
      fallbackProvider : {Null, "b"},
      providerOrder    : AllProviderOrders,
      retriesSet       : BOOLEAN,
      retries          : 0..MaxRetries ]

\* AIRequest.prompt: the empty string and a non-empty one
Prompts == {"", "Hello"}

\* AIRequest: the prompt and the fields selection reads
AIRequests ==
    [ prompt : Prompts, modelId : {Null} \cup ModelIds, preferredProvider : {Null, "b"} ]

\* the requests of Spec: no part of the factory reads the prompt, and Spec
\* explores the calls with one prompt; RegistrySpec explores them with both
Requests == {request \in AIRequests : request.prompt = "Hello"}

\* AIResponse: the fields dispatch reads or the caller sees
NoResponse == [ success |-> FALSE, data |-> Null, error |-> Null, providerId |-> Null ]

\* Mutation of NoProvidersResponse: the response names no providerId.
NoProvidersResponseWithoutId ==
    [ success |-> FALSE, data |-> Null,
      error |-> "No AI providers available", providerId |-> Null ]

NoProvidersResponse ==
    [ success |-> FALSE, data |-> Null,
      error |-> "No AI providers available", providerId |-> "none" ]

\* What a provider's process() promise settles to.
ProcessOutcomes == {"ok", "fail", "throw"}

\* AIResponse.data is optional: instance "p2" answers a success without data.
providerResponse(p, outcome) ==
    IF outcome = "ok"
    THEN [ success |-> TRUE, data |-> IF p = "p2" THEN Null ELSE "text",
           error |-> Null, providerId |-> providerId(p) ]
    ELSE [ success |-> FALSE, data |-> Null, error |-> "provider error", providerId |-> providerId(p) ]

\* The call frames of this specification: one call on the factory at a time,
\* each new call made once the previous one has settled and been released.
Calls == {1}

VARIABLES
    config,       \* this.config
    providers,    \* this.providers: a Map, as the sequence of its entries in insertion order
    initPc,       \* where initializeProviders is suspended: "discover", "test", or "done"
    initIdx,      \* index in config.providers of the provider being probed
    calls,        \* per call: the frame of process / generate / testProviders / ready
    probeLog,     \* history: the discoverModels / testConnection invocations that
                  \* initializeProviders made, in order, with how each settled
    builtin       \* one built-in provider object (OpenAI, LM Studio or Ollama) and
                  \* the discoverModels / process call or Ollama command running on it

vars == <<config, providers, initPc, initIdx, calls, probeLog, builtin>>

\* the fields of the AIFactory and the calls on it
factoryVars == <<config, providers, initPc, initIdx, calls, probeLog>>

\* ---------------------------------------------------------------- the Map

MapHas(m, id) == \E i \in 1..Len(m) : m[i].id = id

MapIndex(m, id) == CHOOSE i \in 1..Len(m) : m[i].id = id

MapGet(m, id) == IF MapHas(m, id) THEN m[MapIndex(m, id)].inst ELSE Null

\* Mutation of MapSet: an id already present keeps its instance (registration
\* guarded by !has(id)), so the first write wins.
MapSetKeepsFirst(m, id, p) ==
    IF MapHas(m, id) THEN m ELSE Append(m, [id |-> id, inst |-> p])

\* Mutation of MapSet: an existing key is deleted and set anew, which moves it
\* behind the others.
MapSetMovesToEnd(m, id, p) ==
    Append(SelectSeq(m, LAMBDA e : e.id # id), [id |-> id, inst |-> p])

\* Mutation of MapSet: a new key is put in front of the others.
MapSetPrepends(m, id, p) ==
    IF MapHas(m, id)
    THEN [m EXCEPT ![MapIndex(m, id)] = [id |-> id, inst |-> p]]
    ELSE <<[id |-> id, inst |-> p]>> \o m

\* Map.prototype.set: a new key is appended, an existing key keeps its place
MapSet(m, id, p) ==
    IF MapHas(m, id)
    THEN [m EXCEPT ![MapIndex(m, id)] = [id |-> id, inst |-> p]]
    ELSE Append(m, [id |-> id, inst |-> p])

\* ------------------------------------------------------- selection policy

\* Mutation of getProviderForModel: the last provider that supports the
\* model is returned.
getProviderForModelLast(modelId) ==
    LET hits == {i \in 1..Len(providers) : isModelSupported(providers[i].inst, modelId)}
    IN  IF hits = {} THEN Null
        ELSE providers[CHOOSE i \in hits : \A j \in hits : j <= i].inst

\* getProviderForModel: first provider, in Map order, that supports the model
getProviderForModel(modelId) ==
    LET hits == {i \in 1..Len(providers) : isModelSupported(providers[i].inst, modelId)}
    IN  IF hits = {} THEN Null
        ELSE providers[CHOOSE i \in hits : \A j \in hits : i <= j].inst

\* Mutation of firstRegisteredInOrder: the loop runs over the Map's keys and
\* tests membership in providerOrder, so registration order decides.
firstRegisteredInMapOrder(order) ==
    LET hits == {i \in 1..Len(providers) : \E k \in 1..Len(order) : order[k] = providers[i].id}
    IN  IF hits = {} THEN Null
        ELSE providers[CHOOSE i \in hits : \A j \in hits : i <= j].inst

\* the for loop over config.providerOrder: first id the Map has
firstRegisteredInOrder(order) ==
    LET hits == {i \in 1..Len(order) : MapHas(providers, order[i])}
    IN  IF hits = {} THEN Null
        ELSE MapGet(providers, order[CHOOSE i \in hits : \A j \in hits : i <= j])

\* this.providers.values().next().value ?? null
firstProvider == IF Len(providers) = 0 THEN Null ELSE providers[1].inst

\* Mutation of resolveProvider: defaultProvider is consulted before modelId.
resolveProviderDefaultFirst(request) ==
    LET byModel == IF request.modelId # Null
                   THEN getProviderForModel(request.modelId) ELSE Null
        byOrder == firstRegisteredInOrder(config.providerOrder)
    IN  IF config.defaultProvider # Null /\ MapHas(providers, config.defaultProvider)
        THEN MapGet(providers, config.defaultProvider)
        ELSE IF byModel # Null THEN byModel
        ELSE IF Len(config.providerOrder) > 0 /\ byOrder # Null THEN byOrder
        ELSE firstProvider

\* Mutation of resolveProvider: providerOrder is consulted before defaultProvider.
resolveProviderOrderFirst(request) ==
    LET byModel == IF request.modelId # Null
                   THEN getProviderForModel(request.modelId) ELSE Null
        byOrder == firstRegisteredInOrder(config.providerOrder)
    IN  IF byModel # Null THEN byModel
        ELSE IF Len(config.providerOrder) > 0 /\ byOrder # Null THEN byOrder
        ELSE IF config.defaultProvider # Null /\ MapHas(providers, config.defaultProvider)
             THEN MapGet(providers, config.defaultProvider)
        ELSE firstProvider

\* Mutation of resolveProvider: a modelId no provider supports selects none.
resolveProviderStrictModel(request) ==
    LET byModel == IF request.modelId # Null
                   THEN getProviderForModel(request.modelId) ELSE Null
        byOrder == firstRegisteredInOrder(config.providerOrder)
    IN  IF request.modelId # Null THEN byModel
        ELSE IF config.defaultProvider # Null /\ MapHas(providers, config.defaultProvider)
             THEN MapGet(providers, config.defaultProvider)
        ELSE IF Len(config.providerOrder) > 0 /\ byOrder # Null THEN byOrder
        ELSE firstProvider

\* Mutation of resolveProvider: providers are taken in turn (round robin over
\* the invocations made so far) instead of by the decision rule.
resolveProviderRoundRobin(request) ==
    IF Len(providers) = 0 THEN Null
    ELSE LET made == Len(calls[CHOOSE c \in Calls : TRUE].outcomes)
         IN  providers[(made % Len(providers)) + 1].inst

resolveProvider(request) ==
    LET byModel == IF request.modelId # Null
                   THEN getProviderForModel(request.modelId) ELSE Null
        byOrder == firstRegisteredInOrder(config.providerOrder)
    IN  IF byModel # Null THEN byModel
        ELSE IF config.defaultProvider # Null /\ MapHas(providers, config.defaultProvider)
             THEN MapGet(providers, config.defaultProvider)
        ELSE IF Len(config.providerOrder) > 0 /\ byOrder # Null THEN byOrder
        ELSE firstProvider

\* --------------------------------------------------------------- accessors

\* Set.prototype.add for every element of an array: a Set keeps its elements
\* once, in the order they were first added
RECURSIVE SetAddAll(_, _)
SetAddAll(set, array) ==
    IF array = <<>> THEN set
    ELSE SetAddAll(IF Head(array) \in Range(set) THEN set ELSE Append(set, Head(array)),
                   Tail(array))

\* the Set of getAllSupportedModels after the providers from the i-th on
RECURSIVE CollectModels(_, _)
CollectModels(set, i) ==
    IF i > Len(providers) THEN set
    ELSE CollectModels(SetAddAll(set, supportedModelsArray(providers[i].inst)), i + 1)

\* Mutation of getAllSupportedModels: the arrays are concatenated, no Set.
RECURSIVE ConcatModels(_)
ConcatModels(i) ==
    IF i > Len(providers) THEN <<>>
    ELSE supportedModelsArray(providers[i].inst) \o ConcatModels(i + 1)

getAllSupportedModelsConcatenated == ConcatModels(1)

\* getAllSupportedModels(): Array.from(set)
getAllSupportedModels == CollectModels(<<>>, 1)

\* ------------------------------------------------- registry construction

\* Mutation of list: an empty config.providers counts as none given.
listEmptyMeansDefault ==
    IF config.providersSet /\ Len(config.providers) > 0 THEN config.providers
    ELSE BuiltinProviders

\* const list of initializeProviders: config.providers when it is not
\* undefined, else the five built-in providers, constructed here
list == IF config.providersSet THEN config.providers ELSE BuiltinProviders

\* Mutation of log: the logger and its method are called without the
\* optional chaining.
logWithoutOptionalChaining(level) ==
    IF config.loggerSet /\ level \in config.logger THEN "called" ELSE "TypeError"

\* this.log(level, ...): this.config.logger?.[level]?.(message, ...args) calls
\* the logger's method when there is a logger and it has the method, and is
\* skipped otherwise
log(level) ==
    IF config.loggerSet /\ level \in config.logger THEN "called" ELSE "skipped"

\* what an exception out of this.log would be
logError == [ name |-> "TypeError", message |-> "not a function", provider |-> Null ]

\* Mutation of InitStart: the list is walked from its last element.
InitStartFromLast ==
    IF log("info") = "TypeError" THEN [ pc |-> "failed", idx |-> 0 ]
    ELSE IF Len(list) = 0 THEN [ pc |-> "done", idx |-> 0 ]
    ELSE [ pc |-> "discover", idx |-> Len(list) ]

\* initializeProviders as the constructor leaves it: after the log of line 33,
\* which is outside any try, at the first provider's discoverModels, or at its
\* end when the list is empty.  "failed" is initializationPromise rejected.
\* An info log that returns at line 33 returns at lines 37, 42 and 52 too.
InitStart ==
    IF log("info") = "TypeError" THEN [ pc |-> "failed", idx |-> 0 ]
    ELSE IF Len(list) = 0 THEN [ pc |-> "done", idx |-> 0 ]
    ELSE [ pc |-> "discover", idx |-> 1 ]

\* the for loop of initializeProviders moves on to the next provider, or ends
InitAdvance ==
    IF initIdx < Len(list)
    THEN /\ initIdx' = initIdx + 1
         /\ initPc' = "discover"
    ELSE /\ initIdx' = initIdx
         /\ initPc' = "done"

\* the catch block: the warn log of line 48, then the next provider; an
\* exception out of the catch block rejects initializationPromise
Caught ==
    IF log("warn") = "TypeError"
    THEN /\ initIdx' = initIdx
         /\ initPc' = "failed"
    ELSE InitAdvance

\* Mutation of DiscoverReturns: an exception of discoverModels is swallowed
\* and the connection test made all the same.
DiscoverReturnsIgnoresThrow(outcome) ==
    /\ initPc = "discover"
    /\ initPc' = "test"
    /\ initIdx' = initIdx
    /\ UNCHANGED <<config, providers, calls, builtin>>

\* await provider.discoverModels() settles
DiscoverReturns(outcome) ==
    /\ initPc = "discover"
    /\ IF outcome = "ok"
       THEN /\ initPc' = "test"
            /\ initIdx' = initIdx
       ELSE Caught
    /\ UNCHANGED <<config, providers, calls, builtin>>

\* Mutation of TestReturns: the result of testConnection is not looked at, so
\* a provider is registered unless the test throws.
TestReturnsIgnoresResult(outcome) ==
    /\ initPc = "test"
    /\ LET p == list[initIdx]
       IN  providers' = IF outcome \in {"true", "false"}
                        THEN MapSet(providers, providerId(p), p)
                        ELSE providers
    /\ InitAdvance
    /\ UNCHANGED <<config, calls, builtin>>

\* Mutation of TestReturns: a provider whose test does not return true takes
\* the entry registered under its id out of the registry.
TestReturnsEvictsOnFailure(outcome) ==
    /\ initPc = "test"
    /\ LET p == list[initIdx]
       IN  providers' = IF outcome = "true"
                        THEN MapSet(providers, providerId(p), p)
                        ELSE SelectSeq(providers, LAMBDA e : e.id # providerId(p))
    /\ CASE outcome = "true"  -> InitAdvance
         [] outcome = "false" -> IF log("warn") = "TypeError" THEN Caught ELSE InitAdvance
         [] outcome = "throw" -> Caught
    /\ UNCHANGED <<config, calls, builtin>>

\* await provider.testConnection() settles
TestReturns(outcome) ==
    /\ initPc = "test"
    /\ LET p == list[initIdx]
       IN  providers' = IF outcome = "true"
                        THEN MapSet(providers, providerId(p), p)
                        ELSE providers
    /\ CASE outcome = "true"  -> InitAdvance
         [] outcome = "false" -> IF log("warn") = "TypeError" THEN Caught ELSE InitAdvance
         [] outcome = "throw" -> Caught
    /\ UNCHANGED <<config, calls, builtin>>

\* Mutation of Ready: initializationPromise is never resolved.
ReadyNever == FALSE

\* Mutation of Ready: the await on initializationPromise is missing.
ReadyWithoutWaiting == TRUE

\* initializationPromise has resolved: what `await this.initializationPromise` waits for
Ready == initPc = "done"

\* initializationPromise is rejected
Rejected == initPc = "failed"

\* the frame after `await this.initializationPromise`: the await throws what
\* the promise was rejected with, else the call goes on as `resumed`
AwaitInit(f, resumed) ==
    IF Rejected
    THEN [f EXCEPT !.pc = "done", !.status = "threw", !.thrown = logError]
    ELSE resumed

\* The history of the probes.  An invocation is entered when it is made, with
\* outcome "pending", and completed when its promise settles.
Probe(p, call, outcome) == [ provider |-> p, call |-> call, outcome |-> outcome ]

\* the history after the pending invocation settled with `outcome` and the
\* loop made its next invocation, if any
RecordProbe(outcome) ==
    LET settled == [probeLog EXCEPT ![Len(probeLog)].outcome = outcome]
    IN  probeLog' =
            IF initPc' \in {"done", "failed"} THEN settled
            ELSE Append(settled,
                        Probe(list[initIdx'],
                              IF initPc' = "discover" THEN "discoverModels"
                                                      ELSE "testConnection",
                              "pending"))

\* getProvider(providerId): this.providers.get(providerId) ?? null
getProvider(id) == MapGet(providers, id)

\* getAvailableProviders(): Array.from(this.providers.keys())
getAvailableProviders == [i \in 1..Len(providers) |-> providers[i].id]

\* getAllProviders(): Array.from(this.providers.values())
getAllProviders == [i \in 1..Len(providers) |-> providers[i].inst]

\* ------------------------------------------------------------ call frames

NoError == [ name |-> Null, message |-> Null, provider |-> Null ]

\* new AIError(message, provider)
AIError(message, provider) == [ name |-> "AIError", message |-> message, provider |-> provider ]

\* the AIError a built-in provider's handleError throws out of process()
providerError(p) == AIError("processing failed", providerId(p))

IdleFrame ==
    [ kind      |-> Null,        \* "process", "generate" or "testProviders"
      pc        |-> "idle",
      request   |-> [prompt |-> Null, modelId |-> Null, preferredProvider |-> Null],
      early     |-> FALSE,       \* the call was made before initialization finished
      seen      |-> <<>>,        \* the Map as it was when the call read it
      selected  |-> Null,        \* provider
      attempts  |-> 0,
      invoked   |-> <<>>,        \* the process() invocations this call made, in order
      outcomes  |-> <<>>,        \* how those invocations settled, in order
      result    |-> NoResponse,
      status    |-> "pending",   \* "returned" or "threw" once the promise settles
      thrown    |-> NoError,
      value     |-> Null,        \* the string generate returns, the promise ready returns
      testIdx   |-> 0,
      out       |-> <<>> ]       \* testProviders' out, as its entries in insertion order

maxRetries == IF config.retriesSet THEN config.retries ELSE 0

\* One provider.process(request) invocation: by the first attempt (line 97),
\* by a retry (line 101) or on the fallback (line 106).
\* Mutation of Invocation: a retry or the fallback is passed a copy of the
\* request without its modelId.
InvocationResendsWithoutModel(p, role, request) ==
    [ provider |-> p, role |-> role,
      request |-> IF role = "first" THEN request ELSE [request EXCEPT !.modelId = Null] ]

Invocation(p, role, request) == [ provider |-> p, role |-> role, request |-> request ]

\* The promise of process() settles.  Inside generate, generate then resumes.
Settle(f, status, result, thrown) ==
    [f EXCEPT !.pc = IF f.kind = "generate" THEN "genResume" ELSE "done",
              !.status = status, !.result = result, !.thrown = thrown]

\* process(request) is called: runs to `await this.initializationPromise`
CallProcess(c, request) ==
    /\ calls[c].pc = "idle"
    /\ calls' = [calls EXCEPT ![c] =
           [IdleFrame EXCEPT !.kind = "process", !.pc = "awaitInit",
                             !.request = request, !.early = ~Ready]]
    /\ UNCHANGED <<config, providers, initPc, initIdx, probeLog, builtin>>

\* generate(prompt, options) is called: runs to `await this.initializationPromise`
CallGenerate(c, request) ==
    /\ calls[c].pc = "idle"
    /\ calls' = [calls EXCEPT ![c] =
           [IdleFrame EXCEPT !.kind = "generate", !.pc = "genAwaitInit",
                             !.request = request, !.early = ~Ready]]
    /\ UNCHANGED <<config, providers, initPc, initIdx, probeLog, builtin>>

\* generate resumes and calls this.process, which runs to its own await
GenerateCallsProcess(c) ==
    /\ calls[c].pc = "genAwaitInit"
    /\ Ready \/ Rejected
    /\ calls' = [calls EXCEPT ![c] = AwaitInit(@, [@ EXCEPT !.pc = "awaitInit"])]
    /\ UNCHANGED <<config, providers, initPc, initIdx, probeLog, builtin>>

\* Mutation of ProcessSelect: with no provider, process throws instead of
\* returning the "No AI providers available" response.
ProcessSelectThrowsOnNone(f) ==
    LET provider == resolveProvider(f.request)
    IN  IF provider = Null
        THEN [f EXCEPT !.seen = providers,
                       !.pc = IF f.kind = "generate" THEN "genResume" ELSE "done",
                       !.status = "threw",
                       !.thrown = AIError("No AI providers available", "AIFactory")]
        ELSE [f EXCEPT !.seen = providers, !.selected = provider,
                       !.pc = "primary",
                       !.invoked = <<Invocation(provider, "first", f.request)>>]

\* Mutation of ProcessSelect: an empty prompt is rejected before selection.
ProcessSelectValidatesPrompt(f) ==
    LET provider == resolveProvider(f.request)
    IN  IF f.request.prompt = ""
        THEN Settle([f EXCEPT !.seen = providers], "returned",
                    [ success |-> FALSE, data |-> Null,
                      error |-> "Prompt is required", providerId |-> "none" ], NoError)
        ELSE IF provider = Null
        THEN Settle([f EXCEPT !.seen = providers], "returned", NoProvidersResponse, NoError)
        ELSE [f EXCEPT !.seen = providers, !.selected = provider,
                       !.pc = "primary",
                       !.invoked = <<Invocation(provider, "first", f.request)>>]

\* Mutation of ProcessSelect: the first attempt and all the retries are
\* started together, none waiting for the one before.
ProcessSelectInvokesAllAtOnce(f) ==
    LET provider == resolveProvider(f.request)
    IN  IF provider = Null
        THEN Settle([f EXCEPT !.seen = providers], "returned", NoProvidersResponse, NoError)
        ELSE [f EXCEPT !.seen = providers, !.selected = provider,
                       !.pc = "primary",
                       !.invoked = [i \in 1..(maxRetries + 1) |->
                                       Invocation(provider,
                                                  IF i = 1 THEN "first" ELSE "retry",
                                                  f.request)]]

\* process resumes: resolveProvider, then the first provider.process(request)
ProcessSelect(f) ==
    LET provider == resolveProvider(f.request)
    IN  IF provider = Null
        THEN Settle([f EXCEPT !.seen = providers], "returned", NoProvidersResponse, NoError)
        ELSE [f EXCEPT !.seen = providers, !.selected = provider,
                       !.pc = "primary",
                       !.invoked = <<Invocation(provider, "first", f.request)>>]

ProcessResume(c) ==
    /\ calls[c].pc = "awaitInit"
    /\ Ready \/ Rejected
    /\ calls' = [calls EXCEPT ![c] = AwaitInit(@, ProcessSelect(calls[c]))]
    /\ UNCHANGED <<config, providers, initPc, initIdx, probeLog, builtin>>

\* Mutation of retryAgain: the loop bound off by one (attempts <= maxRetries).
retryAgainOffByOne(result, attempts) == ~result.success /\ attempts <= maxRetries

\* the retry loop's condition: !result.success && attempts < maxRetries
retryAgain(result, attempts) == ~result.success /\ attempts < maxRetries

\* Mutation of fallbackFor: the fallback is not compared with the provider
\* that just failed.
fallbackForAllowsSame(result, provider) ==
    IF ~result.success /\ config.fallbackProvider # Null
    THEN MapGet(providers, config.fallbackProvider)
    ELSE Null

\* the fallback to use after `result` of `provider`, or Null:
\* !result.success && fallbackProvider && fallbackProvider !== provider.providerId,
\* and this.providers.get(fallbackProvider) is defined
fallbackFor(result, provider) ==
    IF /\ ~result.success
       /\ config.fallbackProvider # Null
       /\ config.fallbackProvider # providerId(provider)
    THEN MapGet(providers, config.fallbackProvider)
    ELSE Null

\* the frame after `await provider.process(request)` settled with `outcome`
AfterPrimary(f, outcome) ==
    LET g      == [f EXCEPT !.outcomes = Append(f.outcomes, outcome)]
        result == providerResponse(f.selected, outcome)
        fb     == fallbackFor(result, f.selected)
    IN  IF outcome = "throw"
        THEN Settle(g, "threw", f.result, providerError(f.selected))
        ELSE IF retryAgain(result, f.attempts)
        THEN [g EXCEPT !.attempts = f.attempts + 1, !.result = result,
                       !.invoked = Append(f.invoked, Invocation(f.selected, "retry", f.request))]
        ELSE IF fb # Null
        THEN [g EXCEPT !.result = result, !.pc = "fallback",
                       !.invoked = Append(f.invoked, Invocation(fb, "fallback", f.request))]
        ELSE Settle(g, "returned", result, NoError)

\* Mutation of PrimaryReturns: the attempt count is kept on the factory, where
\* every call in flight reads and advances the same counter.
PrimaryReturnsSharedAttempts(c, outcome) ==
    LET shared == CHOOSE n \in {calls[d].attempts : d \in DOMAIN calls} :
                      \A d \in DOMAIN calls : calls[d].attempts <= n
    IN  /\ calls[c].pc = "primary"
        /\ calls' = [calls EXCEPT
                        ![c] = AfterPrimary([calls[c] EXCEPT !.attempts = shared], outcome)]
        /\ UNCHANGED <<config, providers, initPc, initIdx, probeLog, builtin>>

PrimaryReturns(c, outcome) ==
    /\ calls[c].pc = "primary"
    /\ calls' = [calls EXCEPT ![c] = AfterPrimary(calls[c], outcome)]
    /\ UNCHANGED <<config, providers, initPc, initIdx, probeLog, builtin>>

\* Mutation of AfterFallback: a failing fallback result is dropped and the
\* primary's failure returned.
AfterFallbackKeepsPrimary(f, outcome) ==
    LET g  == [f EXCEPT !.outcomes = Append(f.outcomes, outcome)]
        fb == f.invoked[Len(f.invoked)].provider
    IN  IF outcome = "throw"
        THEN [g EXCEPT !.pc = IF f.kind = "generate" THEN "genResume" ELSE "done",
                       !.status = "threw", !.thrown = providerError(fb)]
        ELSE [g EXCEPT !.pc = IF f.kind = "generate" THEN "genResume" ELSE "done",
                       !.status = "returned",
                       !.result = IF outcome = "ok" THEN providerResponse(fb, outcome)
                                  ELSE f.result]

\* Mutation of AfterFallback: a failing fallback is tried a second time.
AfterFallbackTriesAgain(f, outcome) ==
    LET g  == [f EXCEPT !.outcomes = Append(f.outcomes, outcome)]
        fb == f.invoked[Len(f.invoked)].provider
    IN  IF outcome = "throw"
        THEN Settle(g, "threw", f.result, providerError(fb))
        ELSE IF outcome = "fail" /\ f.invoked[Len(f.invoked) - 1].role # "fallback"
        THEN [g EXCEPT !.invoked = Append(f.invoked, Invocation(fb, "fallback", f.request))]
        ELSE Settle(g, "returned", providerResponse(fb, outcome), NoError)

\* the frame after `await fallback.process(request)` settled with `outcome`
AfterFallback(f, outcome) ==
    LET g  == [f EXCEPT !.outcomes = Append(f.outcomes, outcome)]
        fb == f.invoked[Len(f.invoked)].provider
    IN  IF outcome = "throw"
        THEN Settle(g, "threw", f.result, providerError(fb))
        ELSE Settle(g, "returned", providerResponse(fb, outcome), NoError)

FallbackReturns(c, outcome) ==
    /\ calls[c].pc = "fallback"
    /\ calls' = [calls EXCEPT ![c] = AfterFallback(calls[c], outcome)]
    /\ UNCHANGED <<config, providers, initPc, initIdx, probeLog, builtin>>

\* Mutation of AfterGenerate: a failing response is not turned into an error;
\* generate returns its data ?? '' whatever response.success is.
AfterGenerateReturnsOnFailure(f) ==
    IF f.status = "threw"
    THEN [f EXCEPT !.pc = "done"]
    ELSE [f EXCEPT !.pc = "done",
                   !.value = IF f.result.data # Null THEN f.result.data ELSE ""]

\* Mutation of AfterGenerate: the failure is thrown as a plain Error, without
\* the AIError type and its provider tag.
AfterGenerateThrowsPlainError(f) ==
    IF f.status = "threw"
    THEN [f EXCEPT !.pc = "done"]
    ELSE IF ~f.result.success
    THEN [f EXCEPT !.pc = "done", !.status = "threw",
                   !.thrown = [ name     |-> "Error",
                                message  |-> IF f.result.error # Null THEN f.result.error
                                             ELSE "Generation failed",
                                provider |-> Null ]]
    ELSE [f EXCEPT !.pc = "done",
                   !.value = IF f.result.data # Null THEN f.result.data ELSE ""]

\* generate after `await this.process(...)`: throw on failure, else data ?? ''
AfterGenerate(f) ==
    IF f.status = "threw"
    THEN [f EXCEPT !.pc = "done"]
    ELSE IF ~f.result.success
    THEN [f EXCEPT !.pc = "done", !.status = "threw",
                   !.thrown = AIError(IF f.result.error # Null THEN f.result.error
                                      ELSE "Generation failed",
                                      "AIFactory")]
    ELSE [f EXCEPT !.pc = "done",
                   !.value = IF f.result.data # Null THEN f.result.data ELSE ""]

GenerateResume(c) ==
    /\ calls[c].pc = "genResume"
    /\ calls' = [calls EXCEPT ![c] = AfterGenerate(calls[c])]
    /\ UNCHANGED <<config, providers, initPc, initIdx, probeLog, builtin>>

\* testProviders() is called: runs to `await this.initializationPromise`
CallTestProviders(c) ==
    /\ calls[c].pc = "idle"
    /\ calls' = [calls EXCEPT ![c] =
           [IdleFrame EXCEPT !.kind = "testProviders", !.pc = "tpAwaitInit",
                             !.early = ~Ready]]
    /\ UNCHANGED <<config, providers, initPc, initIdx, probeLog, builtin>>

\* testProviders resumes: the loop reaches its first p.testConnection(), or ends
TestProvidersResume(c) ==
    /\ calls[c].pc = "tpAwaitInit"
    /\ Ready \/ Rejected
    /\ calls' = [calls EXCEPT ![c] = AwaitInit(@,
           IF Len(providers) = 0
           THEN [@ EXCEPT !.seen = providers, !.pc = "done", !.status = "returned"]
           ELSE [@ EXCEPT !.seen = providers, !.pc = "testing", !.testIdx = 1])]
    /\ UNCHANGED <<config, providers, initPc, initIdx, probeLog, builtin>>

\* Mutation of TestConnectionReturns: testProviders drops from the Map a
\* provider whose connection test returned false, and ends there.
TestConnectionReturnsPrunes(c, outcome) ==
    /\ calls[c].pc = "testing"
    /\ LET f   == calls[c]
           id  == providers[f.testIdx].id
           out == Append(f.out, [id |-> id, ok |-> (outcome = "true")])
       IN  /\ providers' = IF outcome = "false"
                            THEN SelectSeq(providers, LAMBDA e : e.id # id)
                            ELSE providers
           /\ calls' = [calls EXCEPT ![c] =
                  IF outcome = "throw"
                  THEN [f EXCEPT !.pc = "done", !.status = "threw"]
                  ELSE IF outcome = "true" /\ f.testIdx < Len(providers)
                  THEN [f EXCEPT !.out = out, !.testIdx = f.testIdx + 1]
                  ELSE [f EXCEPT !.out = out, !.pc = "done", !.status = "returned"]]
    /\ UNCHANGED <<config, initPc, initIdx, probeLog, builtin>>

\* `await p.testConnection()` of testProviders settles
TestConnectionReturns(c, outcome) ==
    /\ calls[c].pc = "testing"
    /\ LET f   == calls[c]
           out == Append(f.out, [id |-> providers[f.testIdx].id, ok |-> (outcome = "true")])
       IN  calls' = [calls EXCEPT ![c] =
               IF outcome = "throw"
               THEN [f EXCEPT !.pc = "done", !.status = "threw"]
               ELSE IF f.testIdx < Len(providers)
               THEN [f EXCEPT !.out = out, !.testIdx = f.testIdx + 1]
               ELSE [f EXCEPT !.out = out, !.pc = "done", !.status = "returned"]]
    /\ UNCHANGED <<config, providers, initPc, initIdx, probeLog, builtin>>

\* Mutation of CallReady: ready() returns this.initializeProviders(), a new
\* promise of a new construction run, instead of the stored promise.
CallReadyRestarts(c) ==
    /\ calls[c].pc = "idle"
    /\ calls' = [calls EXCEPT ![c] =
           [IdleFrame EXCEPT !.kind = "ready", !.pc = "readyAwait", !.early = ~Ready,
                             !.value = "a new promise"]]
    /\ IF initPc = "done" /\ Len(list) > 0
       THEN /\ initPc' = "discover"
            /\ initIdx' = 1
            /\ probeLog' = Append(probeLog,
                                  Probe(list[1], "discoverModels", "pending"))
       ELSE UNCHANGED <<initPc, initIdx, probeLog>>
    /\ UNCHANGED <<config, providers, builtin>>

\* ready() is called: it returns this.initializationPromise, which the caller awaits
CallReady(c) ==
    /\ calls[c].pc = "idle"
    /\ calls' = [calls EXCEPT ![c] =
           [IdleFrame EXCEPT !.kind = "ready", !.pc = "readyAwait", !.early = ~Ready,
                             !.value = "initializationPromise"]]
    /\ UNCHANGED <<config, providers, initPc, initIdx, probeLog, builtin>>

\* the promise ready() returned is resolved: the awaiting caller resumes
ReadyResolves(c) ==
    /\ calls[c].pc = "readyAwait"
    /\ Ready \/ Rejected
    /\ calls' = [calls EXCEPT ![c] = AwaitInit(@,
           [@ EXCEPT !.seen = providers, !.pc = "done", !.status = "returned"])]
    /\ UNCHANGED <<config, providers, initPc, initIdx, probeLog, builtin>>

\* The caller has the settled promise's outcome; the frame is gone and the
\* caller may make its next call.
Release(c) ==
    /\ calls[c].pc = "done"
    /\ calls' = [calls EXCEPT ![c] = IdleFrame]
    /\ UNCHANGED <<config, providers, initPc, initIdx, probeLog, builtin>>

\* ------------------------------------------------ the built-in providers

\* OpenAIProvider, LMStudioProvider, OllamaProvider: the providers that keep
\* the models they discovered in this._supportedModels
BuiltinKinds == {"openai", "lmstudio", "ollama"}

\* model names a service may list
ModelNames == {"gpt-4", "llama3"}

\* m.id?.includes('gpt')
includesGpt(m) == m \in {"gpt-4"}

\* what a service may list: its models, each once, in some order
Listings ==
    {s \in SeqsUpTo(ModelNames, Cardinality(ModelNames)) : Cardinality(Range(s)) = Len(s)}

\* how an HTTP GET of the model list settles: it fails, or answers a listing
ApiOutcomes ==
    {[ok |-> FALSE, listing |-> <<>>]} \cup {[ok |-> TRUE, listing |-> L] : L \in Listings}

\* how `ollama ls` ends: spawn error, exit code not 0, no output, or a table
CliOutcomes ==
    {[how |-> h, listing |-> <<>>] : h \in {"error", "exit1", "empty"}}
        \cup {[how |-> "table", listing |-> L] : L \in Listings}

\* how the HTTP POST of a chat completion settles
HttpOutcomes == {"ok", "auth", "network", "invalidModel"}

\* A text is the sequence of its lines, a line the sequence of its
\* whitespace-separated words.  JSON.stringify(data): one line, one word.
JSONStringify(data) == << <<[json |-> data]>> >>

\* the output of `ollama ls`: a header line, then one line per model
CliTable(L) ==
    <<  <<"NAME", "ID", "SIZE", "MODIFIED">>  >>
        \o [i \in 1..Len(L) |-> <<L[i], "id", "size", "modified">>]

\* OllamaProvider.apiResult(ok, data)
apiResult(ok, data) == [ ok |-> ok, stdout |-> JSONStringify(data) ]

\* the OllamaCLIResult runOllamaCLI resolves with
cliResult(out) ==
    [ ok     |-> out.how \in {"table", "empty"},
      stdout |-> IF out.how = "table" THEN CliTable(out.listing) ELSE <<>> ]

\* OllamaProvider.parseListOutput: no names under two lines, else the first
\* word of every line after the first
parseListOutput(stdout) ==
    IF Len(stdout) < 2 THEN <<>>
    ELSE [i \in 1..(Len(stdout) - 1) |-> stdout[i + 1][1]]

\* what discoverModels stores for an API listing: OpenAI keeps the gpt models
Discovered(kind, listing) ==
    IF kind = "openai" THEN SelectSeq(listing, includesGpt) ELSE listing

\* a provider object as constructed, no call made on it yet
NewBuiltin(kind, apiKey, preferCLI) ==
    [ kind            |-> kind,
      apiKey          |-> apiKey,       \* OpenAI: this.apiKey is set
      preferCLI       |-> preferCLI,    \* Ollama: this.preferCLI
      supportedModels |-> <<>>,         \* this._supportedModels
      pc              |-> "idle",
      op              |-> Null,         \* the call made last: "discoverModels" or "process"
      before          |-> <<>>,         \* supportedModels when that call was made
      listed          |-> FALSE,        \* the service answered a listing during the call
      listing         |-> <<>>,         \* that listing
      status          |-> "pending",    \* "returned" or "threw" once the call settles
      models          |-> <<>>,         \* what discoverModels returned
      response        |-> NoResponse,   \* what process returned
      thrown          |-> NoError,
      cause           |-> Null ]        \* the failure process met, if any

\* no built-in provider is under study
NoBuiltin == NewBuiltin(Null, FALSE, FALSE)

\* BaseProvider.createResponse
createResponse(b, success, data, error) ==
    [ success |-> success, data |-> data, error |-> error, providerId |-> b.kind ]

\* a call starts on the idle provider object
StartCall(b, op) ==
    [b EXCEPT !.op = op, !.before = b.supportedModels, !.listed = FALSE,
              !.listing = <<>>, !.status = "pending", !.models = <<>>,
              !.response = NoResponse, !.thrown = NoError, !.cause = Null]

\* discoverModels() is called: runs to its `await client.get(...)`; OpenAI
\* without an API key returns [] at once
ProviderDiscoverModels ==
    /\ builtin.kind # Null /\ builtin.pc = "idle"
    /\ builtin' = LET b == StartCall(builtin, "discoverModels")
                  IN  IF b.kind = "openai" /\ ~b.apiKey
                      THEN [b EXCEPT !.status = "returned"]
                      ELSE [b EXCEPT !.pc = "discoverApi"]
    /\ UNCHANGED factoryVars

\* OllamaProvider.discoverModels after `await this.list()` in its catch block
afterList(b, result) ==
    IF result.ok /\ Len(result.stdout) > 0
    THEN [b EXCEPT !.supportedModels = parseListOutput(result.stdout),
                   !.models = parseListOutput(result.stdout),
                   !.pc = "idle", !.status = "returned"]
    ELSE [b EXCEPT !.pc = "idle", !.status = "returned"]

\* the GET of discoverModels settles.  A listing is stored and returned.  On a
\* failure OpenAI and LM Studio return []; Ollama calls this.list(), which
\* tries the API again unless preferCLI, and else runs `ollama ls`.
DiscoverApiReturns(resp) ==
    /\ builtin.pc = "discoverApi"
    /\ builtin' =
          IF resp.ok
          THEN [builtin EXCEPT !.supportedModels = Discovered(builtin.kind, resp.listing),
                               !.models = Discovered(builtin.kind, resp.listing),
                               !.listed = TRUE, !.listing = resp.listing,
                               !.pc = "idle", !.status = "returned"]
          ELSE IF builtin.kind # "ollama"
          THEN [builtin EXCEPT !.pc = "idle", !.status = "returned"]
          ELSE [builtin EXCEPT !.pc = IF builtin.preferCLI THEN "listCli" ELSE "listApi"]
    /\ UNCHANGED factoryVars

\* the GET /api/tags of OllamaProvider.list settles: an answer is returned as
\* apiResult(true, data); on a failure list goes on to the CLI
ListApiReturns(resp) ==
    /\ builtin.pc = "listApi"
    /\ builtin' =
          IF resp.ok
          THEN afterList([builtin EXCEPT !.listed = TRUE, !.listing = resp.listing],
                         apiResult(TRUE, resp.listing))
          ELSE [builtin EXCEPT !.pc = "listCli"]
    /\ UNCHANGED factoryVars

\* runOllamaCLI('ls') of OllamaProvider.list settles: rejected on a spawn
\* error, which discoverModels lets through, else resolved with a result
ListCliReturns(out) ==
    /\ builtin.pc = "listCli"
    /\ builtin' =
          IF out.how = "error"
          THEN [builtin EXCEPT !.pc = "idle", !.status = "threw",
                               !.thrown = [name |-> "Error", message |-> "spawn failed",
                                           provider |-> Null]]
          ELSE afterList([builtin EXCEPT !.listed = (out.how = "table"),
                                         !.listing = out.listing],
                         cliResult(out))
    /\ UNCHANGED factoryVars

\* process(request) is called on the provider: runs to its `await
\* client.post(...)`; OpenAI without an API key returns a failure at once
ProviderProcess ==
    /\ builtin.kind # Null /\ builtin.pc = "idle"
    /\ builtin' = LET b == StartCall(builtin, "process")
                  IN  IF b.kind = "openai" /\ ~b.apiKey
                      THEN [b EXCEPT !.status = "returned", !.cause = "noKey",
                                     !.response = createResponse(b, FALSE, Null,
                                                                 "OpenAI API key required")]
                      ELSE [b EXCEPT !.pc = "processApi"]
    /\ UNCHANGED factoryVars

\* the POST of process settles: an answer becomes a success response, a
\* failure goes to the catch block, where handleError throws an AIError
ProviderProcessReturns(http) ==
    /\ builtin.pc = "processApi"
    /\ builtin' =
          IF http = "ok"
          THEN [builtin EXCEPT !.pc = "idle", !.status = "returned",
                               !.response = createResponse(builtin, TRUE, "text", Null)]
          ELSE [builtin EXCEPT !.pc = "idle", !.status = "threw", !.cause = http,
                               !.thrown = AIError("processing failed", builtin.kind)]
    /\ UNCHANGED factoryVars

\* ------------------------------------------------------ chat messages

\* the roles of a chat message
ChatRoles == {"system", "user", "assistant"}

\* ConversationHistory: role, content and the optional timestamp
HistoryEntries ==
    [ role : ChatRoles, content : {"One", "Two"}, timestamp : {Null, "t"} ]

\* request.history when given: an array of entries
Histories == UNION {[1..n -> HistoryEntries] : n \in 0..MaxHistory}

\* the fields of an AIRequest that buildChatMessages reads; historySet is
\* FALSE when request.history is undefined
ChatRequests ==
    {request \in [ prompt : Prompts, systemPrompt : {Null, "", "System"},
                   historySet : BOOLEAN, history : Histories ] :
        ~request.historySet => request.history = <<>>}

\* { role, content }
Message(role, content) == [ role |-> role, content |-> content ]

\* a string in a condition: undefined and '' are falsy
Truthy(str) == str # Null /\ str # ""

\* the loop over request.history: an entry whose role is one of the three is
\* pushed as { role, content }
HistoryMessages(history) ==
    LET kept == SelectSeq(history, LAMBDA h : h.role \in ChatRoles)
    IN  [i \in 1..Len(kept) |-> Message(kept[i].role, kept[i].content)]

\* Mutation of buildChatMessages: the system message is pushed after the
\* history.
buildChatMessagesSystemAfterHistory(request) ==
    (IF request.historySet /\ Len(request.history) # 0
       THEN HistoryMessages(request.history) ELSE <<>>)
    \o (IF Truthy(request.systemPrompt)
          THEN <<Message("system", request.systemPrompt)>> ELSE <<>>)
    \o <<Message("user", request.prompt)>>

\* buildChatMessages(request)
buildChatMessages(request) ==
    (IF Truthy(request.systemPrompt)
       THEN <<Message("system", request.systemPrompt)>> ELSE <<>>)
    \o (IF request.historySet /\ Len(request.history) # 0
          THEN HistoryMessages(request.history) ELSE <<>>)
    \o <<Message("user", request.prompt)>>

\* a provider object about to be asked to process `request`
ChatCall(kind, request) ==
    [ kind |-> kind, pc |-> "idle", request |-> request, messages |-> <<>>,
      status |-> "pending" ]

\* process(request) of OpenAI (with a key), LM Studio or Ollama: builds the
\* messages and runs to its `await client.post(...)` with them in the body
ChatProcess ==
    /\ builtin.pc = "idle"
    /\ builtin' = [builtin EXCEPT !.messages = buildChatMessages(builtin.request),
                                  !.pc = "processApi"]
    /\ UNCHANGED factoryVars

\* the POST settles
ChatProcessReturns(http) ==
    /\ builtin.pc = "processApi"
    /\ builtin' = [builtin EXCEPT !.pc = "done",
                                  !.status = IF http = "ok" THEN "returned" ELSE "threw"]
    /\ UNCHANGED factoryVars

\* ------------------------------------- the ollama CLI and the commands

\* milliseconds
DEFAULT_TIMEOUT == 30000

\* no timeout
NO_TIMEOUT == 0

\* OllamaCLIOptions: timeoutSet is FALSE when options.timeout is undefined
CliOptions ==
    {o \in [ timeoutSet : BOOLEAN, timeout : {0, 5000} ] : ~o.timeoutSet => o.timeout = 0}

\* const effectiveTimeout = timeout !== undefined ? timeout : ...
effectiveTimeout(subcommand, options) ==
    IF options.timeoutSet THEN options.timeout
    ELSE IF subcommand = "pull" \/ subcommand = "serve" THEN NO_TIMEOUT
    ELSE DEFAULT_TIMEOUT

\* the commands of OllamaProvider that reach the CLI, and those of them that
\* have an HTTP endpoint
OllamaCommands == {"pull", "list", "rm", "show", "run", "ps", "stop", "serve"}

ApiCommands == {"pull", "list", "rm", "show", "run", "ps"}

\* the subcommand handed to runCommand
subcommandOf(cmd) == IF cmd = "list" THEN "ls" ELSE cmd

\* the prompt argument of run: undefined, '' or a text
RunPrompts == {Null, "", "Hello"}

\* what the child process emits: 'close' with (code, signal), either of which
\* may be null (codeSet FALSE: code is null), and 'error'; "timeout" is the
\* timer's callback
NoEventData == [ codeSet |-> FALSE, code |-> 0, signal |-> Null ]

CloseData ==
    {d \in [ codeSet : BOOLEAN, code : {0, 1}, signal : {Null, "SIGTERM"} ] :
        ~d.codeSet => d.code = 0}

CliEvent(kind, data) ==
    [ kind |-> kind, codeSet |-> data.codeSet, code |-> data.code, signal |-> data.signal ]

NoCliResult == [ ok |-> FALSE, code |-> 0 ]

\* new OllamaProvider({ preferCLI }), no command called yet
NewOllama(preferCLI) ==
    [ kind |-> "ollama", preferCLI |-> preferCLI, pc |-> "idle",
      cmd |-> Null, prompt |-> Null,
      options |-> [ timeoutSet |-> FALSE, timeout |-> 0 ],
      apiCalls |-> 0,            \* HTTP requests made
      apiOutcome |-> Null,       \* how the HTTP request ended
      cliCalls |-> 0,            \* child processes spawned
      subcommand |-> Null,
      effectiveTimeout |-> 0,
      timer |-> "none",          \* "armed", "cleared" (clearTimeout) or "fired"
      settled |-> FALSE,         \* the flag of runOllamaCLI
      events |-> <<>>,           \* what the child and the timer did, in order
      settles |-> 0,             \* calls of resolve / reject
      kills |-> 0,               \* proc.kill('SIGTERM') calls
      status |-> "pending",      \* of the promise the command returned
      result |-> NoCliResult ]

\* runOllamaCLI up to the return of its promise: the child is spawned, the
\* handlers are registered and the timer is set when effectiveTimeout > 0
runOllamaCLI(b, subcommand, options) ==
    [b EXCEPT !.pc = "cli", !.cliCalls = @ + 1, !.subcommand = subcommand,
              !.effectiveTimeout = effectiveTimeout(subcommand, options),
              !.timer = IF effectiveTimeout(subcommand, options) > 0
                        THEN "armed" ELSE "none"]

\* Mutation of triesApi: preferCLI is not looked at.
triesApiIgnoringPreferCLI(b, cmd, prompt) ==
    /\ cmd \in ApiCommands
    /\ cmd = "run" => (prompt # Null /\ prompt # "")

\* the guard of the API branch: !this.preferCLI, and for run a prompt that is
\* neither undefined nor ''; stop and serve have no API branch
triesApi(b, cmd, prompt) ==
    /\ ~b.preferCLI
    /\ cmd \in ApiCommands
    /\ cmd = "run" => (prompt # Null /\ prompt # "")

\* pull / list / rm / show / run / ps / stop / serve is called: runs to the
\* await of its HTTP request, or to the spawn of the CLI
OllamaCommand(cmd, prompt, options) ==
    /\ builtin.pc = "idle"
    /\ cmd # "run" => prompt = Null
    /\ builtin' =
          LET b == [builtin EXCEPT !.cmd = cmd, !.prompt = prompt, !.options = options]
          IN  IF triesApi(b, cmd, prompt)
              THEN [b EXCEPT !.pc = "api", !.apiCalls = @ + 1]
              ELSE runOllamaCLI(b, subcommandOf(cmd), options)
    /\ UNCHANGED factoryVars

\* the HTTP request settles: with an answer (a JSON object) the command
\* returns apiResult(true, ...); when it fails tryApi gives null and the
\* command goes on to runCommand
OllamaApiReturns(resp) ==
    /\ builtin.pc = "api"
    /\ builtin' =
          IF resp = "ok"
          THEN [builtin EXCEPT !.pc = "done", !.apiOutcome = "ok",
                               !.settles = @ + 1, !.status = "resolved",
                               !.result = [ ok |-> TRUE, code |-> 0 ]]
          ELSE runOllamaCLI([builtin EXCEPT !.apiOutcome = "fail"],
                            subcommandOf(builtin.cmd), builtin.options)
    /\ UNCHANGED factoryVars

\* Mutation of finish: the settled flag is not tested.
finishUnguarded(b, code) ==
    [b EXCEPT !.settled = TRUE,
              !.timer = IF @ = "armed" THEN "cleared" ELSE @,
              !.settles = @ + 1, !.status = "resolved",
              !.result = [ ok |-> code = 0, code |-> code ]]

\* finish(code): if (settled) return; settled = true; clearTimeout; resolve
finish(b, code) ==
    IF b.settled THEN b
    ELSE [b EXCEPT !.settled = TRUE,
                   !.timer = IF @ = "armed" THEN "cleared" ELSE @,
                   !.settles = @ + 1, !.status = "resolved",
                   !.result = [ ok |-> code = 0, code |-> code ]]

Seen(b, kind) == \E i \in 1..Len(b.events) : b.events[i].kind = kind

\* proc.on('close', (code, signal) => finish(signal ? -1 : (code ?? -1)))
CliClose(data) ==
    /\ builtin.pc = "cli" /\ ~Seen(builtin, "close")
    /\ builtin' = finish([builtin EXCEPT !.events = Append(@, CliEvent("close", data))],
                         IF data.signal # Null THEN -1
                         ELSE IF data.codeSet THEN data.code ELSE -1)
    /\ UNCHANGED factoryVars

\* proc.on('error', ...): if (!settled) { settled = true; clearTimeout; reject }
CliError ==
    /\ builtin.pc = "cli" /\ ~Seen(builtin, "error")
    /\ builtin' =
          LET b == [builtin EXCEPT !.events = Append(@, CliEvent("error", NoEventData))]
          IN  IF b.settled THEN b
              ELSE [b EXCEPT !.settled = TRUE,
                             !.timer = IF @ = "armed" THEN "cleared" ELSE @,
                             !.settles = @ + 1, !.status = "rejected"]
    /\ UNCHANGED factoryVars

\* the timer's callback, which runs only while the timer is set and not
\* cleared: proc.kill('SIGTERM'); finish(-1)
CliTimeout ==
    /\ builtin.pc = "cli" /\ builtin.timer = "armed"
    /\ builtin' = finish([builtin EXCEPT !.events = Append(@, CliEvent("timeout", NoEventData)),
                                         !.timer = "fired", !.kills = @ + 1],
                         -1)
    /\ UNCHANGED factoryVars

\* ---------------------------------------------------------- specification

\* new AIFactory(config): the constructor has run initializeProviders up to its
\* first await (the first provider's discoverModels), or to its end when the
\* list is empty.  The calls are explored on factories given their providers;
\* the factory left to construct the built-in ones is in ConstructionSpec,
\* factories with a logger are in LoggerSpec.
Init ==
    /\ config \in {cfg \in Configs : /\ cfg.providersSet
                                     /\ ~cfg.loggerSet /\ cfg.logger = {}
                                     /\ cfg.providerOrder \in ProviderOrders
                                     /\ ~cfg.retriesSet => cfg.retries = 0}
    /\ providers = <<>>
    /\ initPc = InitStart.pc
    /\ initIdx = InitStart.idx
    /\ calls = [c \in Calls |-> IdleFrame]
    /\ probeLog = <<>>
    /\ builtin = NoBuiltin

\* the calls made on the factory with requests of the set `requests`, each
\* from one await to the next
CallStepOn(requests) ==
    \/ \E c \in Calls, request \in requests : CallProcess(c, request)
    \/ \E c \in Calls, request \in requests : CallGenerate(c, request)
    \/ \E c \in Calls : GenerateCallsProcess(c)
    \/ \E c \in Calls : ProcessResume(c)
    \/ \E c \in Calls, outcome \in ProcessOutcomes : PrimaryReturns(c, outcome)
    \/ \E c \in Calls, outcome \in ProcessOutcomes : FallbackReturns(c, outcome)
    \/ \E c \in Calls : GenerateResume(c)
    \/ \E c \in Calls : CallTestProviders(c)
    \/ \E c \in Calls : TestProvidersResume(c)
    \/ \E c \in Calls, outcome \in {"true", "false", "throw"} : TestConnectionReturns(c, outcome)
    \/ \E c \in Calls : CallReady(c)
    \/ \E c \in Calls : ReadyResolves(c)
    \/ \E c \in Calls : Release(c)

CallStep == CallStepOn(Requests)

\* In Spec the history of the probes is not kept.
Next ==
    \/ \E outcome \in {"ok", "throw"} : DiscoverReturns(outcome) /\ UNCHANGED probeLog
    \/ \E outcome \in {"true", "false", "throw"} : TestReturns(outcome) /\ UNCHANGED probeLog
    \/ CallStep

Spec == Init /\ [][Next]_vars

\* The same factory with the history of its probes kept, for the properties of
\* registry construction, called with requests of either prompt; defaultProvider, providerOrder and retries, which
\* construction does not read, are left unset.
RegistryInit ==
    /\ config \in {cfg \in Configs :
                      /\ cfg.providersSet
                      /\ ~cfg.loggerSet /\ cfg.logger = {}
                      /\ cfg.defaultProvider = Null
                      /\ cfg.providerOrder = <<>>
                      /\ ~cfg.retriesSet /\ cfg.retries = 0}
    /\ providers = <<>>
    /\ initPc = InitStart.pc
    /\ initIdx = InitStart.idx
    /\ calls = [c \in Calls |-> IdleFrame]
    /\ probeLog = IF InitStart.pc = "discover"
                  THEN <<Probe(list[1], "discoverModels", "pending")>> ELSE <<>>
    /\ builtin = NoBuiltin

RegistryNext ==
    \/ \E outcome \in {"ok", "throw"} : DiscoverReturns(outcome) /\ RecordProbe(outcome)
    \/ \E outcome \in {"true", "false", "throw"} : TestReturns(outcome) /\ RecordProbe(outcome)
    \/ CallStepOn(AIRequests)

RegistrySpec == RegistryInit /\ [][RegistryNext]_vars

\* Registry construction alone, of a factory given a config.providers list and
\* of a factory given none (new AIFactory(), new AIFactory({})), with the
\* history of the probes.
ConstructionInit ==
    /\ config \in {cfg \in Configs :
                      /\ ~cfg.providersSet => cfg.providers = <<>>
                      /\ ~cfg.loggerSet /\ cfg.logger = {}
                      /\ cfg.defaultProvider = Null /\ cfg.fallbackProvider = Null
                      /\ cfg.providerOrder = <<>>
                      /\ ~cfg.retriesSet /\ cfg.retries = 0}
    /\ providers = <<>>
    /\ initPc = InitStart.pc
    /\ initIdx = InitStart.idx
    /\ calls = [c \in Calls |-> IdleFrame]
    /\ probeLog = IF InitStart.pc = "discover"
                  THEN <<Probe(list[1], "discoverModels", "pending")>> ELSE <<>>
    /\ builtin = NoBuiltin

ConstructionNext ==
    \/ \E outcome \in {"ok", "throw"} : DiscoverReturns(outcome) /\ RecordProbe(outcome)
    \/ \E outcome \in {"true", "false", "throw"} : TestReturns(outcome) /\ RecordProbe(outcome)

ConstructionSpec == ConstructionInit /\ [][ConstructionNext]_vars

\* the requests of SelectionSpec
SelectionRequests == {request \in Requests : request.preferredProvider = Null}

\* Selection on factories with every providerOrder of the model, the one that
\* lists no registered id included; retries are left unset.
SelectionInit ==
    /\ config \in {cfg \in Configs :
                      /\ cfg.providersSet
                      /\ ~cfg.loggerSet /\ cfg.logger = {}
                      /\ ~cfg.retriesSet /\ cfg.retries = 0}
    /\ providers = <<>>
    /\ initPc = InitStart.pc
    /\ initIdx = InitStart.idx
    /\ calls = [c \in Calls |-> IdleFrame]
    /\ probeLog = <<>>
    /\ builtin = NoBuiltin

SelectionNext ==
    \/ \E outcome \in {"ok", "throw"} : DiscoverReturns(outcome) /\ UNCHANGED probeLog
    \/ \E outcome \in {"true", "false", "throw"} : TestReturns(outcome) /\ UNCHANGED probeLog
    \/ CallStepOn(SelectionRequests)

SelectionSpec == SelectionInit /\ [][SelectionNext]_vars

\* Several process calls in flight on one factory: each `await` of process
\* yields to the event loop, where any other call may take its next step.
ConcurrentCalls == 1..MaxConcurrent

ConcurrentRequests == {request \in Requests : request.modelId = Null}

\* a factory of two providers with one retry and the fallback "b"
ConcurrentInit ==
    /\ config \in {cfg \in Configs :
                      /\ cfg.providersSet /\ cfg.providers = <<"p1", "p2">>
                      /\ ~cfg.loggerSet /\ cfg.logger = {}
                      /\ cfg.defaultProvider = Null
                      /\ cfg.fallbackProvider = "b"
                      /\ cfg.providerOrder = <<>>
                      /\ cfg.retriesSet /\ cfg.retries = 1}
    /\ providers = <<>>
    /\ initPc = InitStart.pc
    /\ initIdx = InitStart.idx
    /\ calls = [c \in ConcurrentCalls |-> IdleFrame]
    /\ probeLog = <<>>
    /\ builtin = NoBuiltin

ConcurrentNext ==
    \/ \E outcome \in {"ok", "throw"} : DiscoverReturns(outcome) /\ UNCHANGED probeLog
    \/ \E outcome \in {"true", "false", "throw"} : TestReturns(outcome) /\ UNCHANGED probeLog
    \/ \E c \in ConcurrentCalls, request \in ConcurrentRequests : CallProcess(c, request)
    \/ \E c \in ConcurrentCalls : ProcessResume(c)
    \/ \E c \in ConcurrentCalls, outcome \in ProcessOutcomes : PrimaryReturns(c, outcome)
    \/ \E c \in ConcurrentCalls, outcome \in ProcessOutcomes : FallbackReturns(c, outcome)
    \/ \E c \in ConcurrentCalls : Release(c)

ConcurrentSpec == ConcurrentInit /\ [][ConcurrentNext]_vars

\* What a provider's process resolves with when it returns: an AIResponse
\* with success true or false.
ReturnOutcomes == {"ok", "fail"}

\* process calls on a factory whose construction completes and whose
\* providers return from every invocation
TerminationInit ==
    /\ config \in {cfg \in Configs :
                      /\ cfg.providersSet
                      /\ ~cfg.loggerSet /\ cfg.logger = {}
                      /\ cfg.defaultProvider = Null
                      /\ cfg.providerOrder = <<>>
                      /\ ~cfg.retriesSet => cfg.retries = 0}
    /\ providers = <<>>
    /\ initPc = InitStart.pc
    /\ initIdx = InitStart.idx
    /\ calls = [c \in Calls |-> IdleFrame]
    /\ probeLog = <<>>
    /\ builtin = NoBuiltin

DiscoverSettles == \E outcome \in {"ok", "throw"} : DiscoverReturns(outcome) /\ UNCHANGED probeLog

TestSettles == \E outcome \in {"true", "false", "throw"} : TestReturns(outcome) /\ UNCHANGED probeLog

PrimarySettles(c) == \E outcome \in ReturnOutcomes : PrimaryReturns(c, outcome)

FallbackSettles(c) == \E outcome \in ReturnOutcomes : FallbackReturns(c, outcome)

TerminationNext ==
    \/ DiscoverSettles
    \/ TestSettles
    \/ \E c \in Calls, request \in ConcurrentRequests : CallProcess(c, request)
    \/ \E c \in Calls : ProcessResume(c)
    \/ \E c \in Calls : PrimarySettles(c)
    \/ \E c \in Calls : FallbackSettles(c)
    \/ \E c \in Calls : Release(c)

\* Fairness: the probes of construction settle (construction completes), the
\* event loop runs a continuation whose promise has settled, and every
\* provider invocation returns.  Making a call and releasing it are up to the
\* caller.
TerminationSpec ==
    /\ TerminationInit /\ [][TerminationNext]_vars
    /\ WF_vars(DiscoverSettles)
    /\ WF_vars(TestSettles)
    /\ \A c \in Calls : WF_vars(ProcessResume(c))
    /\ \A c \in Calls : WF_vars(PrimarySettles(c))
    /\ \A c \in Calls : WF_vars(FallbackSettles(c))

\* the request of LoggerSpec
PlainRequests ==
    {request \in Requests : request.modelId = Null /\ request.preferredProvider = Null}

\* Factories with no logger, with each logger of Loggers, and calls on them,
\* with the history of the probes.
LoggerInit ==
    /\ config \in {cfg \in Configs :
                      /\ cfg.providersSet
                      /\ ~cfg.loggerSet => cfg.logger = {}
                      /\ cfg.defaultProvider = Null
                      /\ cfg.providerOrder = <<>>
                      /\ ~cfg.retriesSet /\ cfg.retries = 0}
    /\ providers = <<>>
    /\ initPc = InitStart.pc
    /\ initIdx = InitStart.idx
    /\ calls = [c \in Calls |-> IdleFrame]
    /\ probeLog = IF InitStart.pc = "discover"
                  THEN <<Probe(list[1], "discoverModels", "pending")>> ELSE <<>>
    /\ builtin = NoBuiltin

LoggerNext ==
    \/ \E outcome \in {"ok", "throw"} : DiscoverReturns(outcome) /\ RecordProbe(outcome)
    \/ \E outcome \in {"true", "false", "throw"} : TestReturns(outcome) /\ RecordProbe(outcome)
    \/ CallStepOn(PlainRequests)

LoggerSpec == LoggerInit /\ [][LoggerNext]_vars

\* A built-in provider object on its own, used outside any factory: OpenAI
\* with and without an API key, LM Studio, Ollama with and without preferCLI.
ProviderInit ==
    /\ builtin \in {NewBuiltin(kind, apiKey, preferCLI) :
                        kind \in BuiltinKinds, apiKey \in BOOLEAN, preferCLI \in BOOLEAN}
    /\ builtin.kind # "openai" => builtin.apiKey
    /\ builtin.kind # "ollama" => ~builtin.preferCLI
    /\ config = [ providersSet |-> TRUE, providers |-> <<>>,
                  loggerSet |-> FALSE, logger |-> {}, defaultProvider |-> Null, fallbackProvider |-> Null,
                  providerOrder |-> <<>>, retriesSet |-> FALSE, retries |-> 0 ]
    /\ providers = <<>>
    /\ initPc = "done"
    /\ initIdx = 0
    /\ calls = [c \in Calls |-> IdleFrame]
    /\ probeLog = <<>>

ProviderNext ==
    \/ ProviderDiscoverModels
    \/ \E resp \in ApiOutcomes : DiscoverApiReturns(resp)
    \/ \E resp \in ApiOutcomes : ListApiReturns(resp)
    \/ \E out \in CliOutcomes : ListCliReturns(out)
    \/ ProviderProcess
    \/ \E http \in HttpOutcomes : ProviderProcessReturns(http)

ProviderSpec == ProviderInit /\ [][ProviderNext]_vars

\* config.providers listing every instance of the model, two of which report
\* the same providerId, in each order
FullProviderLists ==
    {s \in SeqsUpTo(Instances, Cardinality(Instances)) : Range(s) = Instances}

\* Factories given all the instances, with the history of the probes, and
\* process calls on them; selection is left to modelId and registration order.
DuplicateInit ==
    /\ config \in [ providersSet : {TRUE}, providers : FullProviderLists,
                     loggerSet : {FALSE}, logger : {{}},
                     defaultProvider : {Null}, fallbackProvider : {Null},
                     providerOrder : {<<>>}, retriesSet : {FALSE}, retries : {0} ]
    /\ providers = <<>>
    /\ initPc = InitStart.pc
    /\ initIdx = InitStart.idx
    /\ calls = [c \in Calls |-> IdleFrame]
    /\ probeLog = IF InitStart.pc = "discover"
                  THEN <<Probe(list[1], "discoverModels", "pending")>> ELSE <<>>
    /\ builtin = NoBuiltin

DuplicateNext ==
    \/ \E outcome \in {"ok", "throw"} : DiscoverReturns(outcome) /\ RecordProbe(outcome)
    \/ \E outcome \in {"true", "false", "throw"} : TestReturns(outcome) /\ RecordProbe(outcome)
    \/ \E c \in Calls, request \in SelectionRequests : CallProcess(c, request)
    \/ \E c \in Calls : ProcessResume(c)
    \/ \E c \in Calls, outcome \in ProcessOutcomes : PrimaryReturns(c, outcome)
    \/ \E c \in Calls : Release(c)

DuplicateSpec == DuplicateInit /\ [][DuplicateNext]_vars

\* An OllamaProvider, with and without preferCLI, on which one command is
\* called, and the child process and timer of that command's CLI run.
OllamaInit ==
    /\ builtin \in {NewOllama(preferCLI) : preferCLI \in BOOLEAN}
    /\ config = [ providersSet |-> TRUE, providers |-> <<>>,
                  loggerSet |-> FALSE, logger |-> {}, defaultProvider |-> Null, fallbackProvider |-> Null,
                  providerOrder |-> <<>>, retriesSet |-> FALSE, retries |-> 0 ]
    /\ providers = <<>>
    /\ initPc = "done"
    /\ initIdx = 0
    /\ calls = [c \in Calls |-> IdleFrame]
    /\ probeLog = <<>>

OllamaNext ==
    \/ \E cmd \in OllamaCommands, prompt \in RunPrompts, options \in CliOptions :
          OllamaCommand(cmd, prompt, options)
    \/ \E resp \in {"ok", "fail"} : OllamaApiReturns(resp)
    \/ \E data \in CloseData : CliClose(data)
    \/ CliError
    \/ CliTimeout

OllamaSpec == OllamaInit /\ [][OllamaNext]_vars

\* A built-in provider object asked once to process a request with a system
\* prompt and a conversation history.
ChatInit ==
    /\ builtin \in {ChatCall(kind, request) : kind \in BuiltinKinds, request \in ChatRequests}
    /\ config = [ providersSet |-> TRUE, providers |-> <<>>,
                  loggerSet |-> FALSE, logger |-> {}, defaultProvider |-> Null, fallbackProvider |-> Null,
                  providerOrder |-> <<>>, retriesSet |-> FALSE, retries |-> 0 ]
    /\ providers = <<>>
    /\ initPc = "done"
    /\ initIdx = 0
    /\ calls = [c \in Calls |-> IdleFrame]
    /\ probeLog = <<>>

ChatNext ==
    \/ ChatProcess
    \/ \E http \in HttpOutcomes : ChatProcessReturns(http)

ChatSpec == ChatInit /\ [][ChatNext]_vars

\* ------------------------------------------------------------ properties

\* process (alone or inside generate) has run its selection
SelectionDone(f) ==
    /\ f.kind \in {"process", "generate"}
    /\ f.pc \in {"primary", "fallback", "genResume", "done"}

\* process selected a provider and dispatched to it
Dispatched(f) == SelectionDone(f) /\ f.selected # Null

\* the promise of process() has settled
ProcessSettled(f) ==
    /\ f.kind \in {"process", "generate"}
    /\ f.pc \in {"genResume", "done"}

\* indices of the invocations made on the selected provider, and on the fallback
PrimaryCalls(f) == {i \in 1..Len(f.invoked) : f.invoked[i].role # "fallback"}
FallbackCalls(f) == {i \in 1..Len(f.invoked) : f.invoked[i].role = "fallback"}

\* how the primary invocations that have settled ended
PrimaryOutcomes(f) == {f.outcomes[i] : i \in PrimaryCalls(f) \cap (1..Len(f.outcomes))}

\* config.retries, unset counting as 0
RetriesN == IF config.retriesSet THEN config.retries ELSE 0

\* C1: with retries = N (unset = 0), a selected provider that fails its first k
\* invocations (k <= N) and succeeds on invocation k+1 is invoked exactly k+1
\* times and process returns that success; process does not give up on a
\* failing provider before invocation N+1, and no provider invocation follows
\* the first success.
C1_RetryUntilFirstSuccess ==
    \A c \in Calls :
        LET f == calls[c]
            n == Cardinality(PrimaryCalls(f))
        IN  Dispatched(f) =>
              /\ n >= 1 /\ n <= RetriesN + 1
              /\ \A i \in PrimaryCalls(f) : f.invoked[i].provider = f.selected
              /\ \A i \in 1..Len(f.outcomes) : f.outcomes[i] = "ok" => Len(f.invoked) = i
              /\ (ProcessSettled(f) /\ f.status = "returned") =>
                    \/ /\ f.outcomes[n] = "ok"
                       /\ \A i \in 1..(n - 1) : f.outcomes[i] = "fail"
                       /\ Len(f.invoked) = n
                       /\ f.result = providerResponse(f.selected, "ok")
                    \/ /\ \A i \in 1..n : f.outcomes[i] = "fail"
                       /\ n = RetriesN + 1

\* C1 witness: retries = 2, the provider failed twice and succeeded on its third
\* invocation, and process returned the success.
C1_Witness ==
    \E c \in Calls :
        /\ calls[c].kind = "process" /\ calls[c].pc = "done"
        /\ config.retriesSet /\ config.retries = 2
        /\ calls[c].outcomes = <<"fail", "fail", "ok">>
        /\ calls[c].result.success

\* the fallback is configured, registered, and not the selected provider
FallbackApplies(f) ==
    /\ config.fallbackProvider # Null
    /\ MapHas(providers, config.fallbackProvider)
    /\ config.fallbackProvider # providerId(f.selected)

\* C2: when the selected provider failed on the first attempt and on all
\* config.retries retries and a distinct registered fallbackProvider is
\* configured, the fallback's process is invoked exactly once and what it
\* returns, success or failure, is what process returns; the fallback is never
\* invoked twice.
C2_FallbackInvokedOnce ==
    \A c \in Calls :
        LET f  == calls[c]
            n  == Cardinality(PrimaryCalls(f))
            fb == MapGet(providers, config.fallbackProvider)
        IN  Dispatched(f) =>
              /\ Cardinality(FallbackCalls(f)) <= 1
              /\ ( /\ ProcessSettled(f)
                   /\ f.status = "returned"
                   /\ PrimaryOutcomes(f) = {"fail"}
                   /\ FallbackApplies(f) ) =>
                     /\ n = RetriesN + 1
                     /\ Len(f.invoked) = n + 1
                     /\ f.invoked[n + 1].provider = fb
                     /\ f.invoked[n + 1].role = "fallback"
                     /\ f.outcomes[n + 1] \in {"ok", "fail"}
                     /\ f.result = providerResponse(fb, f.outcomes[n + 1])
                     /\ f.result.providerId = config.fallbackProvider

\* C2 witness: the primary failed twice (retries = 1), the fallback "b" was
\* invoked once and failed too, and its failure is what process returned.
C2_Witness ==
    \E c \in Calls :
        /\ calls[c].kind = "process" /\ calls[c].pc = "done"
        /\ calls[c].status = "returned"
        /\ RetriesN = 1
        /\ calls[c].outcomes = <<"fail", "fail", "fail">>
        /\ calls[c].invoked[3].role = "fallback"
        /\ providerId(calls[c].selected) = "a"
        /\ calls[c].result.providerId = "b"
        /\ ~calls[c].result.success

\* C3: process never throws: an exception raised by a provider's process on
\* the first attempt, a retry or the fallback call is turned into a response.
C3_ProcessNeverThrows ==
    \A c \in Calls :
        LET f == calls[c]
        IN  (\/ f.kind = "process" /\ f.pc = "done"
             \/ f.kind = "generate" /\ f.pc = "genResume") => f.status = "returned"

\* C4: with an empty registry process returns exactly the "No AI providers
\* available" response with providerId "none" and invokes no provider, and
\* generate throws.
C4_EmptyRegistry ==
    \A c \in Calls :
        LET f == calls[c]
        IN  (f.kind \in {"process", "generate"} /\ Len(providers) = 0) =>
              /\ f.invoked = <<>> /\ f.selected = Null
              /\ f.pc \notin {"primary", "fallback"}
              /\ ProcessSettled(f) =>
                    /\ f.result = [ success |-> FALSE, data |-> Null,
                                    error |-> "No AI providers available",
                                    providerId |-> "none" ]
                    /\ f.kind = "process" => f.status = "returned"
              /\ (f.kind = "generate" /\ f.pc = "done") => f.status = "threw"

\* C4 witness: process returned on a registry left empty although providers
\* were listed and retries and a fallback configured.
C4_Witness ==
    \E c \in Calls :
        /\ calls[c].kind = "process" /\ calls[c].pc = "done"
        /\ Len(providers) = 0 /\ Len(config.providers) > 0
        /\ RetriesN > 0 /\ config.fallbackProvider # Null
        /\ calls[c].result.providerId = "none"

\* the call is still at its `await this.initializationPromise`, or not made
BeforeReadiness(f) ==
    f.pc \in {"idle", "awaitInit", "genAwaitInit", "tpAwaitInit", "readyAwait"}

\* C5: process, generate and testProviders block on readiness: a call gets
\* past its await, selects, or invokes a provider's process or testConnection
\* only once registry construction has completed, and the registry it reads is
\* the complete one.
C5_BlocksOnReadiness ==
    \A c \in Calls :
        LET f == calls[c]
        IN  /\ ~BeforeReadiness(f) => (initPc = "done" /\ f.seen = providers)
            /\ initPc # "done" =>
                  (f.selected = Null /\ f.invoked = <<>> /\ f.testIdx = 0 /\ f.out = <<>>)

\* C5 witness: a process call made while construction was running has, after
\* waiting, dispatched on a registry of two providers.
C5_Witness ==
    \E c \in Calls :
        /\ calls[c].kind = "process" /\ calls[c].early /\ calls[c].pc = "done"
        /\ calls[c].selected # Null
        /\ Len(providers) = 2

\* the Map entries whose provider supports the model
Supporters(modelId) ==
    {i \in 1..Len(providers) : modelId \in supportedModels(providers[i].inst)}

\* config.defaultProvider names a registered provider
DefaultRegistered ==
    config.defaultProvider # Null /\ MapHas(providers, config.defaultProvider)

\* C6: a request whose modelId is supported by exactly one registered provider
\* is dispatched to that provider, whatever defaultProvider and providerOrder.
C6_ModelIdSelectsItsOnlySupporter ==
    \A c \in Calls :
        LET f == calls[c]
        IN  (SelectionDone(f) /\ f.request.modelId # Null) =>
              \A i \in Supporters(f.request.modelId) :
                  Supporters(f.request.modelId) = {i} =>
                      /\ f.selected = providers[i].inst
                      /\ f.invoked[1].provider = providers[i].inst
                      /\ f.invoked[1].role = "first"

\* C6 witness: "m1" is supported only by "a"; defaultProvider "b" is registered
\* and providerOrder is set; the call went to "a".
C6_Witness ==
    \E c \in Calls :
        /\ calls[c].kind = "process" /\ calls[c].pc = "done"
        /\ calls[c].request.modelId = "m1"
        /\ Cardinality(Supporters("m1")) = 1
        /\ DefaultRegistered /\ config.defaultProvider = "b"
        /\ Len(config.providerOrder) > 0
        /\ providerId(calls[c].selected) = "a"
        /\ Len(calls[c].outcomes) > 0

\* C7: metadata.preferredProvider naming a registered provider that supports
\* request.modelId (or with modelId unset) is the provider dispatched to,
\* overriding model-based selection, defaultProvider and providerOrder.
C7_PreferredProviderOverrides ==
    \A c \in Calls :
        LET f    == calls[c]
            pref == MapGet(providers, f.request.preferredProvider)
        IN  ( /\ SelectionDone(f)
              /\ f.request.preferredProvider # Null
              /\ pref # Null
              /\ (f.request.modelId = Null \/ f.request.modelId \in supportedModels(pref)) )
                => f.selected = pref

\* C8: with no modelId and config.defaultProvider naming a registered
\* provider, that provider is dispatched to, wherever it stands in registration
\* order and whatever providerOrder lists.
C8_DefaultProviderSelected ==
    \A c \in Calls :
        LET f == calls[c]
        IN  (SelectionDone(f) /\ f.request.modelId = Null /\ DefaultRegistered) =>
              /\ f.selected = MapGet(providers, config.defaultProvider)
              /\ f.invoked[1].provider = MapGet(providers, config.defaultProvider)

\* C8 witness: defaultProvider "b" is registered second, providerOrder lists
\* "a" before "b", the request has no modelId, and the call went to "b".
C8_Witness ==
    \E c \in Calls :
        /\ calls[c].kind = "process" /\ calls[c].pc = "done"
        /\ calls[c].request.modelId = Null
        /\ Len(providers) = 2 /\ providers[2].id = "b" /\ config.defaultProvider = "b"
        /\ config.providerOrder = <<"zz", "a", "b">>
        /\ providerId(calls[c].selected) = "b"
        /\ Len(calls[c].outcomes) > 0

\* indices of providerOrder whose id is registered
RegisteredInOrder ==
    {k \in 1..Len(config.providerOrder) : MapHas(providers, config.providerOrder[k])}

\* C9: when modelId gives no match and no registered defaultProvider applies
\* and providerOrder is set, the call is dispatched to the first id of
\* providerOrder that is registered, unregistered ids before it being skipped,
\* irrespective of registration order.
C9_ProviderOrderSelected ==
    \A c \in Calls :
        LET f == calls[c]
        IN  ( /\ SelectionDone(f)
              /\ (f.request.modelId = Null \/ Supporters(f.request.modelId) = {})
              /\ ~DefaultRegistered )
              => \A k \in RegisteredInOrder :
                    (\A j \in RegisteredInOrder : k <= j) =>
                        /\ f.selected = MapGet(providers, config.providerOrder[k])
                        /\ f.invoked[1].provider = MapGet(providers, config.providerOrder[k])

\* C9 witness: providerOrder is <<"zz", "a", "b">>, "zz" is not registered, "b"
\* was registered before "a", and the call went to "a".
C9_Witness ==
    \E c \in Calls :
        /\ calls[c].kind = "process" /\ calls[c].pc = "done"
        /\ config.providerOrder = <<"zz", "a", "b">>
        /\ ~DefaultRegistered
        /\ Len(providers) = 2 /\ providers[1].id = "b"
        /\ providerId(calls[c].selected) = "a"
        /\ Len(calls[c].outcomes) > 0

\* C10: selection is deterministic: once the registry is built, the provider
\* selected for a request is the same at every later moment, whatever calls
\* were made and however they ended, so calls with equal requests select the
\* same provider; and the provider a call selected is the one selection yields
\* for its request after that call's own attempts and outcomes.
C10_SelectionDeterministic ==
    [][ /\ initPc = "done" =>
              \A r \in Requests : resolveProvider(r)' = resolveProvider(r)
        /\ (\A c \in Calls :
              SelectionDone(calls[c]) =>
                  calls[c].selected = resolveProvider(calls[c].request))' ]_vars

\* C10 witness: a call settled after a failed attempt, a retry and a fallback
\* invocation on a registry of two providers, with a defaultProvider set.
C10_Witness ==
    \E c \in Calls :
        /\ calls[c].kind = "process" /\ calls[c].pc = "done"
        /\ Len(providers) = 2
        /\ calls[c].outcomes = <<"fail", "fail", "ok">>
        /\ calls[c].invoked[3].role = "fallback"

\* the process() call of the frame returned a response (it did not throw)
ProcessReturned(f) ==
    /\ ProcessSettled(f)
    /\ f.outcomes = <<>> \/ f.outcomes[Len(f.outcomes)] # "throw"

\* C15: generate returns the response's data, or the empty string when data is
\* absent, exactly when the process result has success true, and throws
\* whenever it has success false, be the failure that of an empty registry or
\* that of a provider after retries and fallback.
C15_GenerateReturnsDataOrThrows ==
    \A c \in Calls :
        LET f == calls[c]
        IN  (f.kind = "generate" /\ f.pc = "done" /\ ProcessReturned(f)) =>
              /\ f.status = "returned" <=> f.result.success
              /\ f.status = "threw" <=> ~f.result.success
              /\ f.result.success =>
                    f.value = IF f.result.data = Null THEN "" ELSE f.result.data
              /\ ~f.result.success => f.value = Null
              /\ f.selected = Null => ~f.result.success

\* C15 witness: generate returned the empty string for a success without data
\* that the provider gave on a retry.
C15_Witness ==
    \E c \in Calls :
        /\ calls[c].kind = "generate" /\ calls[c].pc = "done"
        /\ calls[c].outcomes = <<"fail", "ok">>
        /\ calls[c].result.success /\ calls[c].result.data = Null
        /\ calls[c].status = "returned" /\ calls[c].value = ""

\* C16: the error generate throws for a failing response is an AIError with
\* that response's error message, and for a failure of the dispatch itself (no
\* provider available) its provider tag is "AIFactory".
C16_GenerateThrowsAIError ==
    \A c \in Calls :
        LET f == calls[c]
        IN  ( /\ f.kind = "generate" /\ f.pc = "done"
              /\ ProcessReturned(f) /\ ~f.result.success ) =>
              /\ f.status = "threw"
              /\ f.thrown.name = "AIError"
              /\ f.thrown.message = f.result.error
              /\ f.selected = Null =>
                    f.thrown = AIError("No AI providers available", "AIFactory")

\* C16 witness: on an empty registry generate threw the AIError tagged
\* "AIFactory" with the message of the "No AI providers available" response.
C16_Witness ==
    \E c \in Calls :
        /\ calls[c].kind = "generate" /\ calls[c].pc = "done"
        /\ Len(providers) = 0
        /\ calls[c].status = "threw"
        /\ calls[c].thrown.provider = "AIFactory"
        /\ calls[c].thrown.message = "No AI providers available"

\* the provider whose process() was invoked last by the call
LastInvoked(f) == f.invoked[Len(f.invoked)].provider

\* C17: every response process returns with success false has an error string
\* and a providerId naming the provider invoked last (the fallback when it was
\* invoked, else the selected provider), or "none" when no provider was
\* available.
C17_FailureNamesLastProvider ==
    \A c \in Calls :
        LET f == calls[c]
        IN  (ProcessReturned(f) /\ ~f.result.success) =>
              /\ f.result.error # Null
              /\ f.result.data = Null
              /\ IF f.selected = Null
                 THEN f.result.providerId = "none" /\ f.invoked = <<>>
                 ELSE /\ f.result.providerId = providerId(LastInvoked(f))
                      /\ FallbackCalls(f) = {} => LastInvoked(f) = f.selected
                      /\ FallbackCalls(f) # {} =>
                            LastInvoked(f) = MapGet(providers, config.fallbackProvider)

\* C17 witness: the selected provider "a" and then the fallback "b" failed,
\* and process returned the failure naming "b".
C17_Witness ==
    \E c \in Calls :
        /\ calls[c].kind = "process" /\ calls[c].pc = "done"
        /\ calls[c].status = "returned" /\ ~calls[c].result.success
        /\ FallbackCalls(calls[c]) # {}
        /\ providerId(calls[c].selected) = "a"
        /\ calls[c].result.providerId = "b"
        /\ calls[c].result.error # Null

\* C20: testProviders returns a map with exactly one boolean entry per
\* registered provider id, each from an invocation of that provider's
\* testConnection made by this call, one invocation on every registered
\* provider per call; on an empty registry it returns the empty map.
C20_TestProvidersReportsEveryProvider ==
    \A c \in Calls :
        LET f == calls[c]
        IN  (f.kind = "testProviders" /\ f.pc = "done") =>
              /\ f.status = "returned"
              /\ [i \in 1..Len(f.out) |-> f.out[i].id] = getAvailableProviders
              /\ f.testIdx = Len(providers)

\* ---------------------------------------- properties of registry construction

\* the probes of one kind that settled with one of the given outcomes
Probed(call, outcomes) ==
    {probeLog[i].provider : i \in {j \in 1..Len(probeLog) :
                                      /\ probeLog[j].call = call
                                      /\ probeLog[j].outcome \in outcomes}}

\* the providers whose testConnection returned true
TestedTrue == Probed("testConnection", {"true"})

\* the providers skipped: discoverModels threw, or testConnection returned
\* false or threw
Skipped ==
    Probed("discoverModels", {"throw"}) \cup Probed("testConnection", {"false", "throw"})

\* the instances the registry holds
Registered == {providers[i].inst : i \in 1..Len(providers)}

\* C11: during registry construction a provider is admitted under its
\* providerId if and only if its testConnection returned true; a provider whose
\* testConnection returned false or threw is skipped; a skip neither makes
\* ready() reject nor keeps the remaining providers of the list from being probed.
C11_AdmittedIffTestConnectionTrue ==
    /\ \A i \in 1..Len(providers) :
          /\ providers[i].inst \in TestedTrue
          /\ providers[i].id = providerId(providers[i].inst)
    /\ \A p \in TestedTrue :
          /\ MapHas(providers, providerId(p))
          /\ getProvider(providerId(p)) \in TestedTrue
    /\ Skipped \cap Registered = {}
    /\ initPc = "done" =>
          \A k \in 1..Len(config.providers) :
              config.providers[k] \in TestedTrue \cup Skipped
    /\ \A c \in Calls :
          (calls[c].kind = "ready" /\ calls[c].pc = "done") =>
              (calls[c].status = "returned" /\ initPc = "done")

\* C11 witness: the first provider's testConnection threw, the second was then
\* probed and admitted, and a ready() made during construction resolved.
C11_Witness ==
    /\ Len(config.providers) = 2
    /\ \E i \in 1..Len(probeLog) :
          probeLog[i] = Probe(config.providers[1], "testConnection", "throw")
    /\ \E i \in 1..Len(probeLog) :
          probeLog[i] = Probe(config.providers[2], "testConnection", "true")
    /\ Registered = {config.providers[2]}
    /\ \E c \in Calls :
          calls[c].kind = "ready" /\ calls[c].early /\ calls[c].status = "returned"

\* C12: once ready() has resolved, the registry (its provider ids, their order
\* and the instance bound to each id) never changes, whatever process,
\* generate, testProviders, ready and accessor calls follow and however they end.
C12_RegistryFrozenAfterReady ==
    [][ initPc = "done" => (providers' = providers /\ initPc' = "done") ]_vars

\* C12 witness: on a registry of two providers built from a list of two, a
\* testProviders call has returned with one provider reported unreachable.
C12_Witness ==
    /\ initPc = "done"
    /\ Len(config.providers) = 2 /\ Len(providers) = 2
    /\ \E c \in Calls :
          /\ calls[c].kind = "testProviders" /\ calls[c].status = "returned"
          /\ \E i \in 1..Len(calls[c].out) : ~calls[c].out[i].ok

\* the invocations of `call` that construction made on provider p
ProbesOf(p, call) ==
    {i \in 1..Len(probeLog) : probeLog[i].provider = p /\ probeLog[i].call = call}

\* C13: ready() is idempotent and registry construction runs once per factory:
\* every ready() call returns the one stored completion promise, which resolves
\* when construction is done; and however many ready, process, generate or
\* testProviders calls are made, before or after completion, each listed
\* provider's discoverModels is invoked at most once.
C13_ReadyIdempotentConstructionOnce ==
    /\ \A p \in Instances :
          /\ Cardinality(ProbesOf(p, "discoverModels")) <= 1
          /\ Cardinality(ProbesOf(p, "testConnection")) <= 1
          /\ ProbesOf(p, "discoverModels") # {} => p \in Range(config.providers)
    /\ \A c \in Calls :
          calls[c].kind = "ready" =>
              /\ calls[c].value = "initializationPromise"
              /\ calls[c].pc = "done" => (calls[c].status = "returned" /\ initPc = "done")

\* C13 witness: construction over a list of two is complete, each provider
\* discovered once, and a ready() made after completion has resolved.
C13_Witness ==
    /\ initPc = "done" /\ Len(config.providers) = 2
    /\ \A k \in 1..2 : Cardinality(ProbesOf(config.providers[k], "discoverModels")) = 1
    /\ \E c \in Calls :
          /\ calls[c].kind = "ready" /\ ~calls[c].early
          /\ calls[c].pc = "done" /\ calls[c].status = "returned"

\* provider ids: those the instances report, and one that none reports
ProviderIds == {providerId(p) : p \in Instances} \cup {"zz"}

\* the provider with this id whose testConnection returned true last, or Null
LastAdmitted(id) ==
    LET hits == {i \in 1..Len(probeLog) :
                    /\ probeLog[i].call = "testConnection"
                    /\ probeLog[i].outcome = "true"
                    /\ providerId(probeLog[i].provider) = id}
    IN  IF hits = {} THEN Null
        ELSE probeLog[CHOOSE i \in hits : \A j \in hits : j <= i].provider

\* C14: when two admitted providers of the list have the same providerId the
\* later one overwrites the earlier: getProvider(id) is the instance admitted
\* last under that id, the id is registered once, and construction completes
\* without an error.
C14_LastWriteWins ==
    /\ \A id \in ProviderIds :
          /\ getProvider(id) = LastAdmitted(id)
          /\ Cardinality({i \in 1..Len(providers) : getAvailableProviders[i] = id})
                = IF LastAdmitted(id) = Null THEN 0 ELSE 1
    /\ initPc = "done" =>
          \A k \in 1..Len(config.providers) :
              ProbesOf(config.providers[k], "discoverModels") # {}

\* C14 witness: "p1" and "p3" both report id "a" and were both admitted, in
\* that order; construction is done, "a" is listed once and bound to "p3".
C14_Witness ==
    /\ initPc = "done"
    /\ config.providers = <<"p1", "p3">>
    /\ TestedTrue = {"p1", "p3"}
    /\ getAvailableProviders = <<"a">>
    /\ getProvider("a") = "p3"

\* C21: getAllSupportedModels returns the union of supportedModels over the
\* registered providers with every model id exactly once, and the empty list
\* for an empty registry.
C21_AllSupportedModelsIsUnion ==
    /\ Range(getAllSupportedModels)
          = UNION {Range(supportedModelsArray(p)) : p \in Registered}
    /\ Len(getAllSupportedModels) = Cardinality(Range(getAllSupportedModels))
    /\ Len(providers) = 0 => getAllSupportedModels = <<>>

\* C21 witness: "p2" and "p3" are registered, both list "m2" and "p3" lists
\* "m1" twice; the result has "m2" and "m1" once each.
C21_Witness ==
    /\ initPc = "done"
    /\ Registered = {"p2", "p3"}
    /\ providers[1].inst = "p2"
    /\ getAllSupportedModels = <<"m2", "m1">>

\* C22: when config.providers is supplied, only its instances are probed and
\* registered, no built-in provider is constructed or added, the registered
\* ids are among the supplied providers' ids, and providers: [] yields an
\* empty registry (and no probe at all).
C22_OnlySuppliedProviders ==
    config.providersSet =>
        /\ list = config.providers
        /\ \A i \in 1..Len(probeLog) : probeLog[i].provider \in Range(config.providers)
        /\ Registered \subseteq Range(config.providers)
        /\ Range(getAvailableProviders)
              \subseteq {providerId(p) : p \in Range(config.providers)}
        /\ Range(BuiltinProviders) \cap (Range(list) \cup Registered) = {}
        /\ config.providers = <<>> =>
              initPc = "done" /\ providers = <<>> /\ probeLog = <<>>

\* C22 witness: construction given two providers has ended, both were probed
\* and only the second one is registered.
C22_Witness ==
    /\ config.providersSet /\ config.providers = <<"p3", "p2">>
    /\ initPc = "done"
    /\ \A p \in {"p2", "p3"} : ProbesOf(p, "discoverModels") # {}
    /\ getAvailableProviders = <<"b">>

\* a process call, made directly or by generate, that is in flight or done
InProcess(f) == f.kind \in {"process", "generate"} /\ f.pc # "idle"

\* C23: process never mutates the caller's request, and every provider
\* invocation of one process call (first attempt, each retry, the fallback)
\* receives that same unchanged request.
C23_RequestUnchanged ==
    [][ \A c \in Calls :
          (InProcess(calls[c]) /\ InProcess(calls'[c])) =>
              /\ calls'[c].request = calls[c].request
              /\ \A i \in 1..Len(calls'[c].invoked) :
                    calls'[c].invoked[i].request = calls[c].request ]_vars

\* C23 witness: a call with a modelId made a first attempt, a retry and a
\* fallback invocation, all three with the request it was given.
C23_Witness ==
    \E c \in Calls :
        /\ calls[c].kind = "process" /\ calls[c].pc = "done"
        /\ calls[c].request.modelId = "m1" /\ calls[c].request.prompt = "Hello"
        /\ Len(calls[c].invoked) = 3
        /\ {calls[c].invoked[i].role : i \in 1..3} = {"first", "retry", "fallback"}
        /\ \A i \in 1..3 : calls[c].invoked[i].request = calls[c].request

\* C24: the dispatch engine does not validate the prompt: with a non-empty
\* registry a request with the empty prompt selects the provider any other
\* prompt would select, that provider is invoked with the empty prompt, and
\* with no retry or fallback involved the call's outcome is the provider's.
C24_EmptyPromptDispatched ==
    \A c \in Calls :
        LET f == calls[c]
        IN  (InProcess(f) /\ SelectionDone(f) /\ f.request.prompt = ""
               /\ Len(f.seen) > 0) =>
              /\ f.selected # Null
              /\ f.selected = resolveProvider([f.request EXCEPT !.prompt = "Hello"])
              /\ f.invoked[1] = Invocation(f.selected, "first", f.request)
              /\ f.invoked[1].request.prompt = ""
              /\ (f.pc = (IF f.kind = "generate" THEN "genResume" ELSE "done")
                    /\ Len(f.invoked) = 1) =>
                    IF f.outcomes[1] = "throw"
                    THEN f.status = "threw"
                    ELSE /\ f.status = "returned"
                         /\ f.result = providerResponse(f.selected, f.outcomes[1])

\* C24 witness: generate("") on a factory with a provider returned that
\* provider's text.
C24_Witness ==
    \E c \in Calls :
        /\ calls[c].kind = "generate" /\ calls[c].pc = "done"
        /\ calls[c].request.prompt = ""
        /\ Len(calls[c].invoked) = 1 /\ calls[c].invoked[1].request.prompt = ""
        /\ calls[c].status = "returned" /\ calls[c].value = "text"

\* the registry that the probes of history[1..n] that returned true give,
\* whatever the logger
RECURSIVE RegistryOf(_, _)
RegistryOf(history, n) ==
    IF n = 0 THEN <<>>
    ELSE LET before == RegistryOf(history, n - 1)
             probe  == history[n]
         IN  IF probe.call = "testConnection" /\ probe.outcome = "true"
             THEN MapSet(before, providerId(probe.provider), probe.provider)
             ELSE before

\* C25: logging does not affect behaviour.  With no logger, or with a logger
\* that lacks some of its methods, as with a complete one: construction ends
\* without an error, having probed every listed provider, the registry is the
\* one the outcomes of the probes determine, and process raises no error of
\* the logging and returns the response that the request, the registry and the
\* providers' outcomes determine.
C25_LoggingDoesNotAffectBehaviour ==
    /\ ~Rejected
    /\ providers = RegistryOf(probeLog, Len(probeLog))
    /\ initPc = "done" =>
          \A k \in 1..Len(list) : ProbesOf(list[k], "discoverModels") # {}
    /\ \A c \in Calls :
          LET f == calls[c]
          IN  /\ f.thrown # logError
              /\ SelectionDone(f) => f.selected = resolveProvider(f.request)
              /\ (f.kind = "process" /\ f.pc = "done" /\ f.status = "returned") =>
                    f.result = IF f.selected = Null THEN NoProvidersResponse
                               ELSE providerResponse(LastInvoked(f), f.outcomes[Len(f.outcomes)])

\* C25 witness: a factory whose logger has info but no warn skipped its first
\* provider (the warn of the failed connection test had no method to go to),
\* registered the second, and a process call returned that provider's success.
C25_Witness ==
    /\ config.loggerSet /\ config.logger = {"info"}
    /\ Len(list) = 2
    /\ list[1] \in Probed("testConnection", {"false"})
    /\ Registered = {list[2]}
    /\ \E c \in Calls :
          /\ calls[c].kind = "process" /\ calls[c].pc = "done"
          /\ calls[c].status = "returned" /\ calls[c].result.success

\* no registered provider supports the request's modelId, or it has none
NoModelMatch(f) == f.request.modelId = Null \/ Supporters(f.request.modelId) = {}

\* C26: selection never yields none while the registry is non-empty.  A
\* modelId no registered provider supports falls through to defaultProvider,
\* then providerOrder, then the first registered provider; with defaultProvider
\* unregistered and no registered id in providerOrder the first provider in
\* registration order is selected.  Hence process returns the "No AI providers
\* available" failure if and only if the registry is empty.
C26_SelectionFallsThrough ==
    \A c \in Calls :
        LET f == calls[c]
        IN  /\ (SelectionDone(f) /\ Len(providers) > 0) => f.selected # Null
            /\ (SelectionDone(f) /\ NoModelMatch(f) /\ Len(providers) > 0) =>
                  f.selected =
                      IF DefaultRegistered THEN MapGet(providers, config.defaultProvider)
                      ELSE IF RegisteredInOrder # {}
                      THEN MapGet(providers,
                                  config.providerOrder[CHOOSE k \in RegisteredInOrder :
                                                          \A j \in RegisteredInOrder : k <= j])
                      ELSE providers[1].inst
            /\ (ProcessSettled(f) /\ ProcessReturned(f)) =>
                  (f.result = NoProvidersResponse <=> Len(providers) = 0)

\* C26 witness: the request names a model nobody supports, defaultProvider "b"
\* is not registered, providerOrder lists no registered id, and the call was
\* dispatched to the first registered provider, not the only one.
C26_Witness ==
    \E c \in Calls :
        /\ calls[c].kind = "process" /\ calls[c].pc = "done"
        /\ calls[c].request.modelId = "m3"
        /\ config.defaultProvider = "b" /\ ~DefaultRegistered
        /\ config.providerOrder = <<"zz">>
        /\ Len(providers) = 1 /\ Len(config.providers) = 2
        /\ calls[c].selected = providers[1].inst
        /\ calls[c].status = "returned"

\* C27: getProviderForModel returns the first provider in registration order
\* whose isModelSupported is true, or null when there is none, and model-based
\* selection in process dispatches to that provider.
C27_FirstSupporterInRegistrationOrder ==
    /\ \A m \in ModelIds :
          getProviderForModel(m) =
              IF Supporters(m) = {} THEN Null
              ELSE providers[CHOOSE i \in Supporters(m) : \A j \in Supporters(m) : i <= j].inst
    /\ \A c \in Calls :
          LET f == calls[c]
          IN  (SelectionDone(f) /\ ~NoModelMatch(f)) =>
                /\ f.selected = getProviderForModel(f.request.modelId)
                /\ f.invoked[1].provider = getProviderForModel(f.request.modelId)
                /\ \A i \in Supporters(f.request.modelId) :
                      providers[i].inst = f.selected
                        \/ \E j \in 1..(i - 1) : providers[j].inst = f.selected

\* C27 witness: both registered providers support "m2", the earlier one is
\* "b" although defaultProvider is unset and providerOrder lists "a" first, and
\* the call went to "b".
C27_Witness ==
    \E c \in Calls :
        /\ calls[c].kind = "process" /\ calls[c].pc = "done"
        /\ calls[c].request.modelId = "m2"
        /\ Cardinality(Supporters("m2")) = 2
        /\ config.providerOrder = <<"zz", "a", "b">>
        /\ providers[1].inst = "p2" /\ calls[c].selected = "p2"
        /\ calls[c].invoked[1].provider = "p2"

\* C28: the fallback is not invoked when the primary succeeded, when
\* fallbackProvider is unset, when it is the selected provider's id, or when it
\* is not registered; in the failing cases the selected provider has been
\* invoked exactly retries+1 times and process returns its last failing result.
C28_NoFallbackCases ==
    \A c \in Calls :
        LET f == calls[c]
            n == Cardinality(PrimaryCalls(f))
        IN  Dispatched(f) =>
              /\ ("ok" \in PrimaryOutcomes(f) \/ ~FallbackApplies(f)) => FallbackCalls(f) = {}
              /\ ( /\ ProcessSettled(f) /\ ProcessReturned(f)
                   /\ ~FallbackApplies(f)
                   /\ PrimaryOutcomes(f) = {"fail"} ) =>
                     /\ n = RetriesN + 1
                     /\ f.invoked = [i \in 1..n |->
                                       Invocation(f.selected,
                                                  IF i = 1 THEN "first" ELSE "retry", f.request)]
                     /\ f.outcomes = [i \in 1..n |-> "fail"]
                     /\ f.result = providerResponse(f.selected, "fail")
                     /\ f.kind = "process" => f.status = "returned"

\* C28 witness: fallbackProvider "b" is the selected provider itself; with
\* retries = 1 it failed twice, no fallback call was made and process returned
\* its failure.
C28_Witness ==
    \E c \in Calls :
        /\ calls[c].kind = "process" /\ calls[c].pc = "done"
        /\ RetriesN = 1 /\ config.fallbackProvider = "b"
        /\ calls[c].selected = "p2"
        /\ calls[c].outcomes = <<"fail", "fail">> /\ Len(calls[c].invoked) = 2
        /\ calls[c].status = "returned" /\ calls[c].result.providerId = "b"

\* C29: within one process call the provider invocations are strictly
\* sequential and ordered: nothing is invoked before selection, at most one
\* invocation is pending, each retry follows a returned failure of the previous
\* attempt and targets the provider selected once, and the fallback comes
\* only after the last permitted attempt on the primary returned a failure.
C29_InvocationsSequential ==
    \A c \in Calls :
        LET f == calls[c]
        IN  InProcess(f) =>
              /\ ~SelectionDone(f) => (f.invoked = <<>> /\ f.selected = Null)
              /\ Len(f.invoked) = Len(f.outcomes)
                                     + (IF f.pc \in {"primary", "fallback"} THEN 1 ELSE 0)
              /\ \A i \in 1..Len(f.invoked) :
                    /\ (i = 1) <=> (f.invoked[i].role = "first")
                    /\ i > 1 => f.outcomes[i - 1] = "fail"
                    /\ f.invoked[i].role # "fallback" => f.invoked[i].provider = f.selected
                    /\ f.invoked[i].role = "fallback" =>
                          /\ i = Len(f.invoked)
                          /\ i = RetriesN + 2
                          /\ \A j \in 1..(i - 1) : f.invoked[j].role # "fallback"

\* C29 witness: the fallback invocation is pending after the first attempt and
\* the one permitted retry both returned failures.
C29_Witness ==
    \E c \in Calls :
        /\ calls[c].pc = "fallback" /\ RetriesN = 1
        /\ calls[c].outcomes = <<"fail", "fail">>
        /\ Len(calls[c].invoked) = 3
        /\ calls[c].invoked[2].role = "retry" /\ calls[c].invoked[3].role = "fallback"

\* C30: whatever the providers do, one process call invokes the selected
\* provider at least once and at most retries+1 times and the fallback at most
\* once: at most retries+2 provider invocations in total.
C30_InvocationBounds ==
    \A c \in Calls :
        LET f == calls[c]
        IN  Dispatched(f) =>
              /\ Cardinality(PrimaryCalls(f)) \in 1..(RetriesN + 1)
              /\ Cardinality(FallbackCalls(f)) \in 0..1
              /\ Len(f.invoked) <= RetriesN + 2
              /\ Len(f.invoked) = Cardinality(PrimaryCalls(f)) + Cardinality(FallbackCalls(f))

\* C30 witness: with retries = 2 a call made retries+2 = 4 invocations, the
\* last one, on the fallback, ending in an exception.
C30_Witness ==
    \E c \in Calls :
        /\ calls[c].kind = "process" /\ calls[c].pc = "done"
        /\ RetriesN = 2 /\ Len(calls[c].invoked) = 4
        /\ Cardinality(PrimaryCalls(calls[c])) = 3
        /\ calls[c].outcomes[4] = "throw"

\* where provider p stands in the list construction walks
ListIndex(p) == CHOOSE k \in 1..Len(list) : list[k] = p

\* the probe has settled and left its provider admitted or skipped
Concluded(probe) ==
    \/ probe.call = "discoverModels" /\ probe.outcome = "throw"
    \/ probe.call = "testConnection" /\ probe.outcome \in {"true", "false", "throw"}

\* C31: during registry construction the providers are probed one at a time
\* in list order: a provider's discoverModels is called and completes before
\* its testConnection is called, and no call is made on the next provider
\* until the current one has been admitted or skipped.
C31_ProbedOneAtATimeInListOrder ==
    /\ \A i \in 1..Len(probeLog) :
          /\ probeLog[i].outcome = "pending" => (i = Len(probeLog) /\ initPc \notin {"done", "failed"})
          /\ i = 1 => (probeLog[i].provider = list[1] /\ probeLog[i].call = "discoverModels")
          /\ (i > 1 /\ probeLog[i].call = "testConnection") =>
                /\ probeLog[i - 1].provider = probeLog[i].provider
                /\ probeLog[i - 1].call = "discoverModels"
                /\ probeLog[i - 1].outcome = "ok"
          /\ (i > 1 /\ probeLog[i].call = "discoverModels") =>
                /\ ListIndex(probeLog[i].provider) = ListIndex(probeLog[i - 1].provider) + 1
                /\ Concluded(probeLog[i - 1])
                /\ probeLog[i - 1].outcome = "true" =>
                      MapHas(providers, providerId(probeLog[i - 1].provider))
    /\ initPc \in {"discover", "test"} =>
          /\ Len(probeLog) > 0
          /\ probeLog[Len(probeLog)] =
                Probe(list[initIdx],
                      IF initPc = "discover" THEN "discoverModels" ELSE "testConnection",
                      "pending")

\* C31 witness: the second provider's testConnection is pending, after the
\* first provider was skipped on a failed connection test and the second
\* one's discoverModels completed.
C31_Witness ==
    /\ initPc = "test" /\ initIdx = 2
    /\ Len(probeLog) = 4
    /\ probeLog[2] = Probe(list[1], "testConnection", "false")
    /\ probeLog[3] = Probe(list[2], "discoverModels", "ok")
    /\ probeLog[4] = Probe(list[2], "testConnection", "pending")

\* C32: a provider whose discoverModels throws during registry construction
\* is skipped without its testConnection being called and is not registered,
\* and construction continues with the next provider.
C32_DiscoverThrowSkips ==
    /\ ~Rejected
    /\ \A i \in 1..Len(probeLog) :
          (probeLog[i].call = "discoverModels" /\ probeLog[i].outcome = "throw") =>
              LET p == probeLog[i].provider
              IN  /\ ProbesOf(p, "testConnection") = {}
                  /\ p \notin Registered
                  /\ IF ListIndex(p) < Len(list)
                     THEN /\ Len(probeLog) > i
                          /\ probeLog[i + 1].provider = list[ListIndex(p) + 1]
                          /\ probeLog[i + 1].call = "discoverModels"
                     ELSE i = Len(probeLog) /\ initPc = "done"

\* C32 witness: the first provider's discoverModels threw, the second
\* provider was probed and registered, and construction is done.
C32_Witness ==
    /\ initPc = "done" /\ Len(list) = 2
    /\ probeLog[1] = Probe(list[1], "discoverModels", "throw")
    /\ Registered = {list[2]}

\* the listed providers whose testConnection returned true, in list order
AdmittedInListOrder == SelectSeq(list, LAMBDA p : p \in TestedTrue)

\* C33: registration order is call order: after readiness
\* getAvailableProviders lists the ids of the admitted providers in the order
\* in which those providers stand in the configured list (an id that several
\* admitted providers report standing once, where the first of them stands).
C33_RegistrationOrderIsListOrder ==
    initPc = "done" =>
        getAvailableProviders =
            SetAddAll(<<>>, [i \in 1..Len(AdmittedInListOrder) |->
                                providerId(AdmittedInListOrder[i])])

\* C33 witness: of the five built-in providers the second and the third were
\* skipped; the three admitted ones are listed in the order of the list.
C33_Witness ==
    /\ ~config.providersSet /\ initPc = "done"
    /\ TestedTrue = {"openai", "ollama", "lmstudio"}
    /\ getAvailableProviders = <<"openai", "ollama", "lmstudio">>

\* C34 as stated: what the synchronous accessors return before readiness is
\* a subset of the final registry, entries being only added: every instance
\* getAllProviders returns is returned after the next step too, and getProvider
\* goes on returning the instance it returned for an id.
C34_Original_PartialRegistryIsSubset ==
    [][ /\ Range(getAllProviders) \subseteq Range(getAllProviders')
        /\ \A id \in ProviderIds :
              getProvider(id) # Null => getProvider(id)' = getProvider(id)
      ]_vars

\* C34 (amended): the accessors read the registry as populated so far, and
\* during construction ids are only added, never removed: the ids registered
\* so far stay a prefix of getAvailableProviders, and an entry changes only by
\* the provider under test being bound to its own id.
C34_IdsOnlyAdded ==
    [][ /\ Len(getAvailableProviders') >= Len(getAvailableProviders)
        /\ SubSeq(getAvailableProviders', 1, Len(getAvailableProviders))
              = getAvailableProviders
        /\ \A i \in 1..Len(providers') :
              \/ i <= Len(providers) /\ providers'[i] = providers[i]
              \/ /\ initPc = "test"
                 /\ providers'[i] = [ id |-> providerId(list[initIdx]),
                                      inst |-> list[initIdx] ]
      ]_vars

\* C34 witness: construction is not over, one provider is registered and
\* visible to the accessors, and a second provider with the same id is under
\* test.
C34_Witness ==
    /\ initPc = "test" /\ initIdx = 2
    /\ providerId(list[1]) = providerId(list[2]) /\ list[1] # list[2]
    /\ getAllProviders = <<list[1]>>
    /\ getProvider(providerId(list[2])) = list[1]

\* the retry/fallback contract of one call, from that call's own invocations
CallContract(f) ==
    LET n == Cardinality(PrimaryCalls(f))
    IN  Dispatched(f) =>
          /\ n \in 1..(RetriesN + 1)
          /\ Cardinality(FallbackCalls(f)) \in 0..1
          /\ f.attempts = Cardinality({i \in PrimaryCalls(f) : f.invoked[i].role = "retry"})
          /\ \A i \in 1..Len(f.outcomes) : f.outcomes[i] = "ok" => Len(f.invoked) = i
          /\ (Cardinality(FallbackCalls(f)) = 1 \/ (ProcessSettled(f) /\ PrimaryOutcomes(f) = {"fail"}))
                => n = RetriesN + 1

\* C35: for any interleaving of concurrent process calls on one factory,
\* process writes no shared state: a step of one call changes that call's
\* frame only, the registry is the same before and after, and every call
\* keeps the retry/fallback contract counted on its own invocations (primary
\* invoked at most retries+1 times and not given up earlier, fallback at most
\* once).
C35_ConcurrentCallsIndependent ==
    [][ /\ \A c \in DOMAIN calls : CallContract(calls[c])'
        /\ \A c \in DOMAIN calls :
              calls'[c] # calls[c] =>
                  /\ providers' = providers /\ config' = config
                  /\ \A d \in DOMAIN calls \ {c} : calls'[d] = calls[d]
      ]_vars

\* C35 witness: two calls selected the same provider; while one, having
\* failed once, has its retry in flight, the other has gone through its own
\* two attempts and the fallback.
C35_Witness ==
    /\ calls[1].pc = "primary" /\ calls[1].attempts = 1
    /\ calls[2].pc = "done" /\ calls[2].outcomes = <<"fail", "fail", "ok">>
    /\ calls[1].selected = calls[2].selected

\* C36: provided construction completes and every provider invocation
\* returns, every process call eventually returns a response; and the engine
\* has no timeout of its own: a call waiting for a provider invocation moves
\* on only by that invocation settling, so that it stays pending for as long
\* as the invocation does not return.
C36_ProcessTerminates ==
    /\ \A c \in Calls :
          (calls[c].kind = "process" /\ calls[c].pc # "idle")
              ~> (calls[c].pc = "done" /\ calls[c].status = "returned")
    /\ [][ \A c \in Calls :
              (calls[c].pc \in {"primary", "fallback"} /\ calls'[c] # calls[c]) =>
                  /\ calls'[c].outcomes # calls[c].outcomes
                  /\ SubSeq(calls'[c].outcomes, 1, Len(calls[c].outcomes)) = calls[c].outcomes
                  /\ Len(calls'[c].invoked) <= RetriesN + 2
      ]_vars

\* C36 witness: with retries = 2 and no usable fallback a call whose provider
\* failed on all three invocations returned that failure.
C36_Witness ==
    \E c \in Calls :
        /\ calls[c].kind = "process" /\ calls[c].pc = "done"
        /\ calls[c].status = "returned"
        /\ RetriesN = 2 /\ calls[c].attempts = 2
        /\ calls[c].outcomes = <<"fail", "fail", "fail">>
        /\ ~calls[c].result.success

\* C37: buildChatMessages forwards the conversation in order: the
\* systemPrompt, when there is one, first as a system message, then every
\* history entry in its order with role and content unchanged, then the prompt
\* last as a user message; the output has (1 if systemPrompt) + |history| + 1
\* messages.
C37_ChatMessagesInOrder ==
    builtin.pc # "idle" =>
        LET request == builtin.request
            m == builtin.messages
            s == IF Truthy(request.systemPrompt) THEN 1 ELSE 0
            h == IF request.historySet THEN request.history ELSE <<>>
        IN  /\ Len(m) = s + Len(h) + 1
            /\ s = 1 => m[1] = Message("system", request.systemPrompt)
            /\ \A i \in 1..Len(h) :
                  m[s + i].role = h[i].role /\ m[s + i].content = h[i].content
            /\ m[Len(m)] = Message("user", request.prompt)
            /\ \A i \in 1..Len(m) : DOMAIN m[i] = {"role", "content"}

\* C37 witness: a system prompt, a history of a user and an assistant entry
\* and the prompt gave four messages in that order.
C37_Witness ==
    /\ builtin.pc = "processApi"
    /\ builtin.messages = << Message("system", "System"), Message("user", "One"),
                             Message("assistant", "Two"), Message("user", "Hello") >>

\* the ids of the admitted providers, each where the first admitted provider
\* reporting it stands in the list
AdmittedIds ==
    SetAddAll(<<>>, [i \in 1..Len(AdmittedInListOrder) |->
                        providerId(AdmittedInListOrder[i])])

\* per id, at that position, the provider admitted last under the id
AdmittedByPosition == [i \in 1..Len(AdmittedIds) |-> LastAdmitted(AdmittedIds[i])]

\* the first provider of AdmittedByPosition that supports the model, or Null
FirstSupporterByPosition(modelId) ==
    LET hits == {i \in 1..Len(AdmittedByPosition) :
                    modelId \in supportedModels(AdmittedByPosition[i])}
    IN  IF hits = {} THEN Null
        ELSE AdmittedByPosition[CHOOSE i \in hits : \A j \in hits : i <= j]

\* C38: when two admitted providers share a providerId, the id keeps the
\* registration position of the first admitted one while being bound to the
\* later instance: getAvailableProviders lists the id once at the earlier
\* position, and selection by order (first registered, first supporting a
\* model) takes the later instance as registered at that position.
C38_DuplicateIdKeepsFirstPosition ==
    initPc = "done" =>
        /\ getAvailableProviders = AdmittedIds
        /\ getAllProviders = AdmittedByPosition
        /\ \A modelId \in ModelIds :
              getProviderForModel(modelId) = FirstSupporterByPosition(modelId)
        /\ \A c \in Calls :
              LET f == calls[c]
                  byModel == IF f.request.modelId = Null THEN Null
                             ELSE FirstSupporterByPosition(f.request.modelId)
              IN  SelectionDone(f) =>
                      f.selected = IF byModel # Null THEN byModel
                                   ELSE IF Len(AdmittedByPosition) = 0 THEN Null
                                   ELSE AdmittedByPosition[1]

\* C38 witness: of the list p1, p2, p3, all admitted, p1 and p3 report "a":
\* "a" is listed once, before "b", bound to p3, and a request for "m2", which
\* p2 supports and p3 too, went to p3.
C38_Witness ==
    \E c \in Calls :
        /\ initPc = "done" /\ list = <<"p1", "p2", "p3">>
        /\ TestedTrue = {"p1", "p2", "p3"}
        /\ getAvailableProviders = <<"a", "b">>
        /\ getAllProviders = <<"p3", "p2">>
        /\ calls[c].pc = "done" /\ calls[c].request.modelId = "m2"
        /\ calls[c].selected = "p3"

C40_ApiFirstCliFallback ==
    LET b == builtin
        hasApi == b.cmd \in ApiCommands /\ (b.cmd = "run" => b.prompt \notin {Null, ""})
    IN  (b.kind = "ollama" /\ b.pc # "idle" /\ hasApi) =>
          /\ b.preferCLI => (b.apiCalls = 0 /\ b.cliCalls = 1 /\ b.pc = "cli")
          /\ ~b.preferCLI =>
                /\ b.apiCalls = 1
                /\ b.cliCalls = (IF b.apiOutcome = "fail" THEN 1 ELSE 0)
                /\ b.pc = "api" <=> b.apiOutcome = Null
                /\ b.pc = "cli" <=> b.apiOutcome = "fail"
                /\ b.pc = "done" <=> b.apiOutcome = "ok"
                /\ b.apiOutcome = "ok" =>
                      (b.status = "resolved" /\ b.result.ok /\ b.events = <<>>)

\* C40 witness: without preferCLI, show made its HTTP request, which failed,
\* and the CLI run that followed exited with code 0.
C40_Witness ==
    /\ builtin.kind = "ollama" /\ ~builtin.preferCLI /\ builtin.cmd = "show"
    /\ builtin.apiCalls = 1 /\ builtin.apiOutcome = "fail"
    /\ builtin.cliCalls = 1 /\ builtin.subcommand = "show"
    /\ builtin.status = "resolved" /\ builtin.result.ok

\* ------------------------------------- properties of the built-in providers

\* C18: a provider's process does not throw for the ordinary failure modes
\* (authentication failure, network error, invalid model): it returns a
\* response with success false and error set.
C18_ProviderProcessReturnsFailure ==
    ( /\ builtin.op = "process" /\ builtin.status # "pending"
      /\ builtin.cause \in {"noKey", "auth", "network", "invalidModel"} ) =>
        /\ builtin.status = "returned"
        /\ ~builtin.response.success
        /\ builtin.response.error # Null

\* C19: a discoverModels call that fails leaves supportedModels as it was
\* before the call: when a call has ended, supportedModels either holds what
\* the service listed during the call or is unchanged, on the API path and on
\* the path that falls back to the CLI listing.
C19_FailedDiscoveryKeepsModels ==
    (builtin.op = "discoverModels" /\ builtin.status # "pending") =>
        \/ builtin.supportedModels = builtin.before
        \/ /\ builtin.listed
           /\ builtin.supportedModels = Discovered(builtin.kind, builtin.listing)

====
